---- MODULE Spec2Model ----
(***************************************************************************)
(* A model of the LLM invocation pipeline of foundry-ai-text-importer:      *)
(* the rate limiter, the retry handler, the batch processor and askLLM.     *)
(* Each component has its own specification (SpecRL, ...) over the          *)
(* variables it owns; the variables of the other components stay at their   *)
(* initial values there.                                                    *)
(***************************************************************************)
EXTENDS Integers, Sequences, FiniteSets, TLC

VARIABLES
    now,                \* Date.now(), in ms
    rateLimitEnabled,   \* apiConfig.config.rateLimiting.enabled
    requestQueue,       \* RateLimiter.requestQueue (ids of the queued requests)
    activeRequests,     \* RateLimiter.activeRequests
    requestTimestamps,  \* RateLimiter.requestTimestamps
    timers,             \* pending setTimeout(() => this.processQueue(), delay): their due times
    rlState,            \* per request of execute(): position of its promise
    ticks,              \* history: how many times the clock has advanced
    dispatchLog,        \* history: the requests in the order processQueue dispatched them
    lastWait,           \* history: per blocking ceiling, the delay of the last re-check it caused (0: none)
    retryEnabled,       \* apiConfig.config.retryPolicy.enabled
    maxRetries,         \* RetryHandler.config.maxRetries
    rtPc,               \* where the executeWithRetry call stands
    attempt,            \* executeWithRetry: the loop variable
    lastError,          \* executeWithRetry: lastError
    rtOutcome,          \* what executeWithRetry returned or threw
    rtLog,              \* history: the outcome of every invocation of fn, in order
    rtSleeps,           \* history: the delays slept between the attempts
    enableBatching,     \* BatchProcessor.config.enableBatching
    pendingRequests,    \* BatchProcessor.pendingRequests: batch key -> queued requests (<<>>: no entry)
    batchTimers,        \* BatchProcessor.batchTimers: batch key -> due time (NoTimer: no entry)
    queuedAt,           \* per batch key, when each pending request was queued (the Date.now() of its id)
    bpRequest,          \* per processRequest call: its arguments, once made
    bpPromise,          \* per processRequest call: the promise it returned
    flushes,            \* the processBatch runs: members, position, result of the combined call
    askLog,             \* history: the askLLM calls of the batch processor, with their outcomes
    askPc,              \* where the askLLM call stands
    askArgs,            \* askLLM: promptText and outputOptions of the call
    askResult,          \* what askLLM returned or threw
    notificationsReady, \* whether the host's ui.notifications is there to be called
    notifications,      \* the notifications shown through ui.notifications.error
    consoleLog,         \* the console output of APIErrorHandler
    parsedItem,         \* Foundry5eItemFormatter.parsedItem: the item handed to format()
    formatted,          \* what format() returned
    itemPool,           \* the items a caller of format() holds, as they are now
    formatLog,          \* history: the format() calls on the items of the pool
    folders,            \* game.folders: the ids of the 'AI Monster Importer' item folders
    folderCreationPromise, \* folderManager's cached promise (0: null), named by its creation
    creation,           \* the createAIImporterFolder() calls: unstarted, pending, resolved, rejected
    fmCaller,           \* the ensureAIImporterFolderExists() calls: position, promise, result
    graceTimers,        \* the creations whose setTimeout(..., 1000) has not fired yet
    attemptRequests     \* history: the rateLimiter.execute() call of each attempt of executeWithRetry

rlVars == <<now, rateLimitEnabled, requestQueue, activeRequests, requestTimestamps,
            timers, rlState, ticks, dispatchLog, lastWait>>

rtVars == <<retryEnabled, maxRetries, rtPc, attempt, lastError, rtOutcome, rtLog, rtSleeps>>

bpVars == <<enableBatching, pendingRequests, batchTimers, queuedAt, bpRequest, bpPromise, flushes, askLog>>

askVars == <<askPc, askArgs, askResult, notificationsReady, notifications, consoleLog>>

fmtVars == <<parsedItem, formatted, itemPool, formatLog>>

fmVars == <<folders, folderCreationPromise, creation, fmCaller, graceTimers>>

cmpVars == <<attemptRequests>>

vars == <<rlVars, rtVars, bpVars, askVars, fmtVars, fmVars, cmpVars>>

----------------------------------------------------------------------------
(* Bounds of the model *)

MaxRequests == 4
MaxTicks == 4
\* the RateLimitConfig handed to the constructor
MaxConcurrent == 2
RequestsPerSecond == 2
RequestsPerMinute == 3

(* Program constants *)
OneSecond == 1000
OneMinute == 60000
SettleRecheckDelay == 100
PerSecondWait == 1000
DefaultWait == 200

Requests == 1..MaxRequests
TickSteps == {100, 1000, 60000}

----------------------------------------------------------------------------
(* Helpers on sequences *)

RECURSIVE SelectGreater(_, _)
\* Array.prototype.filter(ts => ts > bound)
SelectGreater(s, bound) ==
    IF s = <<>> THEN <<>>
    ELSE IF Head(s) > bound THEN <<Head(s)>> \o SelectGreater(Tail(s), bound)
         ELSE SelectGreater(Tail(s), bound)

RECURSIVE InsertTimer(_, _)
\* the timer heap: due times in firing order, a new timer after the older ones equally due
InsertTimer(s, due) ==
    IF s = <<>> THEN <<due>>
    ELSE IF Head(s) <= due THEN <<Head(s)>> \o InsertTimer(Tail(s), due)
         ELSE <<due>> \o s

RemoveAt(s, i) == SubSeq(s, 1, i - 1) \o SubSeq(s, i + 1, Len(s))

----------------------------------------------------------------------------
(* RateLimiter *)

\* canMakeRequest() without the filter on the timestamps
CleanOldKeepsAll(ts, t) == ts

\* this.requestTimestamps.filter(ts => ts > oneMinuteAgo)
CleanOld(ts, t) == SelectGreater(ts, t - OneMinute)

\* requestsInLastSecond
RequestsInLastSecond(ts, t) == Len(SelectGreater(ts, t - OneSecond))

\* requestsInLastMinute, as getStatus() counts it
RequestsInLastMinute(ts, t) == Len(SelectGreater(ts, t - OneMinute))

CanMakeRequestOffByOne(cleaned, t) ==
    /\ Len(cleaned) <= RequestsPerMinute
    /\ RequestsInLastSecond(cleaned, t) <= RequestsPerSecond

\* canMakeRequest(), on the timestamps it has just cleaned
CanMakeRequest(cleaned, t) ==
    /\ Len(cleaned) < RequestsPerMinute
    /\ RequestsInLastSecond(cleaned, t) < RequestsPerSecond

\* getWaitTime() with the same delay whatever blocks
GetWaitTimeAlwaysDefault(ts, t) == DefaultWait

\* getWaitTime()
GetWaitTime(ts, t) ==
    IF RequestsInLastSecond(ts, t) >= RequestsPerSecond THEN PerSecondWait ELSE DefaultWait

\* the ceiling that makes canMakeRequest() false: the per-second one where it is
\* reached, the per-minute one where it alone is
BlockingFactor(cleaned, t) ==
    IF RequestsInLastSecond(cleaned, t) >= RequestsPerSecond THEN "second" ELSE "minute"

QueueBlockedNoCeiling(queue, active) == Len(queue) = 0

\* processQueue(): the first early return
QueueBlocked(queue, active) == Len(queue) = 0 \/ active >= MaxConcurrent

\* processQueue() taking the request at the back of the queue
ProcessQueueFromBack(queue, tms, st) ==
    IF QueueBlocked(queue, activeRequests)
    THEN /\ requestQueue' = queue
         /\ timers' = tms
         /\ rlState' = st
         /\ UNCHANGED <<activeRequests, requestTimestamps, dispatchLog, lastWait>>
    ELSE LET cleaned == CleanOld(requestTimestamps, now) IN
         IF ~CanMakeRequest(cleaned, now)
         THEN /\ requestQueue' = queue
              /\ requestTimestamps' = cleaned
              /\ timers' = InsertTimer(tms, now + GetWaitTime(cleaned, now))
              /\ rlState' = st
              /\ UNCHANGED <<activeRequests, dispatchLog>>
              /\ lastWait' = [lastWait EXCEPT ![BlockingFactor(cleaned, now)] = GetWaitTime(cleaned, now)]
         ELSE /\ requestQueue' = SubSeq(queue, 1, Len(queue) - 1)
              /\ activeRequests' = activeRequests + 1
              /\ requestTimestamps' = Append(cleaned, now)
              /\ timers' = tms
              /\ rlState' = [st EXCEPT ![queue[Len(queue)]] = "running"]
              /\ dispatchLog' = Append(dispatchLog, queue[Len(queue)])
              /\ UNCHANGED lastWait

\* processQueue() up to its await: queue and tms are the queue and the timers as
\* the caller left them, st the requests' states
ProcessQueue(queue, tms, st) ==
    IF QueueBlocked(queue, activeRequests)
    THEN /\ requestQueue' = queue
         /\ timers' = tms
         /\ rlState' = st
         /\ UNCHANGED <<activeRequests, requestTimestamps, dispatchLog, lastWait>>
    ELSE LET cleaned == CleanOld(requestTimestamps, now) IN
         IF ~CanMakeRequest(cleaned, now)
         THEN /\ requestQueue' = queue
              /\ requestTimestamps' = cleaned
              /\ timers' = InsertTimer(tms, now + GetWaitTime(cleaned, now))
              /\ rlState' = st
              /\ UNCHANGED <<activeRequests, dispatchLog>>
              /\ lastWait' = [lastWait EXCEPT ![BlockingFactor(cleaned, now)] = GetWaitTime(cleaned, now)]
         ELSE /\ requestQueue' = Tail(queue)
              /\ activeRequests' = activeRequests + 1
              /\ requestTimestamps' = Append(cleaned, now)
              /\ timers' = tms
              /\ rlState' = [st EXCEPT ![Head(queue)] = "running"]
              /\ dispatchLog' = Append(dispatchLog, Head(queue))
              /\ UNCHANGED lastWait

\* the next request to be submitted: requests are numbered in submission order
NextRequest == CHOOSE r \in Requests : rlState[r] = "new" /\ \A q \in Requests : rlState[q] = "new" => r <= q

\* execute(fn) without the test of the enabled flag
ExecuteAlwaysQueued(r) ==
    /\ \E q \in Requests : rlState[q] = "new"
    /\ r = NextRequest
    /\ ProcessQueue(Append(requestQueue, r), timers, [rlState EXCEPT ![r] = "queued"])
    /\ UNCHANGED <<now, ticks, rateLimitEnabled, rtVars, bpVars, askVars, fmtVars, fmVars, cmpVars>>

\* execute(fn), whoever calls it
ExecuteCall(r) ==
    /\ \E q \in Requests : rlState[q] = "new"
    /\ r = NextRequest
    /\ IF ~rateLimitEnabled
       THEN /\ rlState' = [rlState EXCEPT ![r] = "direct"]
            /\ UNCHANGED <<requestQueue, activeRequests, requestTimestamps, timers, dispatchLog, lastWait>>
       ELSE ProcessQueue(Append(requestQueue, r), timers, [rlState EXCEPT ![r] = "queued"])
    /\ UNCHANGED <<now, ticks, rateLimitEnabled, rtVars, bpVars, askVars, fmtVars, fmVars>>

\* execute(fn)
Execute(r) == ExecuteCall(r) /\ UNCHANGED cmpVars

\* a setTimeout(() => this.processQueue(), delay) comes due
ProcessQueueTimer ==
    /\ \E i \in 1..Len(timers) :
         /\ timers[i] <= now
         /\ ProcessQueue(requestQueue, RemoveAt(timers, i), rlState)
    /\ UNCHANGED <<now, ticks, rateLimitEnabled, rtVars, bpVars, askVars, fmtVars, fmVars, cmpVars>>

\* processQueue() after its await, its finally block without the setTimeout
SettleNoRecheck(r, ok) ==
    /\ rlState[r] = "running"
    /\ rlState' = [rlState EXCEPT ![r] = IF ok THEN "resolved" ELSE "rejected"]
    /\ activeRequests' = activeRequests - 1
    /\ UNCHANGED <<rtVars, bpVars, askVars, fmtVars, fmVars, cmpVars, now, ticks, rateLimitEnabled, requestQueue, requestTimestamps, timers,
                   dispatchLog, lastWait>>

\* processQueue() after its await: request.execute() settled
Settle(r, ok) ==
    /\ rlState[r] = "running"
    /\ rlState' = [rlState EXCEPT ![r] = IF ok THEN "resolved" ELSE "rejected"]
    /\ activeRequests' = activeRequests - 1
    /\ timers' = InsertTimer(timers, now + SettleRecheckDelay)
    /\ UNCHANGED <<rtVars, bpVars, askVars, fmtVars, fmVars, cmpVars, now, ticks, rateLimitEnabled, requestQueue, requestTimestamps, dispatchLog, lastWait>>

\* the fn() of a passthrough execute settles
SettleDirect(r, ok) ==
    /\ rlState[r] = "direct"
    /\ rlState' = [rlState EXCEPT ![r] = IF ok THEN "resolved" ELSE "rejected"]
    /\ UNCHANGED <<rtVars, bpVars, askVars, fmtVars, fmVars, cmpVars, now, ticks, rateLimitEnabled, requestQueue, activeRequests, requestTimestamps,
                   timers, dispatchLog, lastWait>>

\* apiConfig.updateConfig({rateLimiting: {enabled}})
SetRateLimitEnabled(b) ==
    /\ rateLimitEnabled # b
    /\ rateLimitEnabled' = b
    /\ UNCHANGED <<rtVars, bpVars, askVars, fmtVars, fmVars, cmpVars, now, ticks, requestQueue, activeRequests, requestTimestamps, timers, rlState,
                   dispatchLog, lastWait>>

\* time passes. setTimeout promises a minimum delay only: the clock may jump past a
\* due time and the timer then runs late; a timer that is already due runs before
\* the clock moves again
Tick(d) ==
    /\ ticks < MaxTicks
    /\ \A i \in 1..Len(timers) : timers[i] > now
    /\ ticks' = ticks + 1
    /\ now' = now + d
    /\ UNCHANGED <<rtVars, bpVars, askVars, fmtVars, fmVars, cmpVars, rateLimitEnabled, requestQueue, activeRequests, requestTimestamps, timers,
                   rlState, dispatchLog, lastWait>>

\* time passes while a re-check is scheduled and none is due: the clock moves on
\* for as long as a timer waits for it (with no timer pending the limiter
\* does nothing until the next execute, whatever the clock shows)
TimePasses(d) ==
    /\ Len(timers) > 0
    /\ \A i \in 1..Len(timers) : timers[i] > now
    /\ now' = now + d
    /\ UNCHANGED <<rtVars, bpVars, askVars, fmtVars, fmVars, cmpVars, ticks, rateLimitEnabled, requestQueue, activeRequests, requestTimestamps,
                   timers, rlState, dispatchLog, lastWait>>

InitRL ==
    /\ now = 0
    /\ ticks = 0
    /\ rateLimitEnabled = TRUE
    /\ requestQueue = <<>>
    /\ activeRequests = 0
    /\ requestTimestamps = <<>>
    /\ timers = <<>>
    /\ rlState = [r \in Requests |-> "new"]
    /\ dispatchLog = <<>>
    /\ lastWait = [factor \in {"second", "minute"} |-> 0]

----------------------------------------------------------------------------
(* Strings *)

\* String.prototype.includes
Includes(s, p) == \E i \in 1..(Len(s) - Len(p) + 1) : SubSeq(s, i, i + Len(p) - 1) = p

UpperCaseLetters == "ABCDEFGHIJKLMNOPQRSTUVWXYZ"
LowerCaseLetters == "abcdefghijklmnopqrstuvwxyz"

LowerChar(c) ==
    IF \E k \in 1..Len(UpperCaseLetters) : SubSeq(UpperCaseLetters, k, k) = c
    THEN LET k == CHOOSE k \in 1..Len(UpperCaseLetters) : SubSeq(UpperCaseLetters, k, k) = c
         IN  SubSeq(LowerCaseLetters, k, k)
    ELSE c

RECURSIVE ToLowerCase(_)
\* String.prototype.toLowerCase
ToLowerCase(s) ==
    IF Len(s) = 0 THEN ""
    ELSE LowerChar(SubSeq(s, 1, 1)) \o ToLowerCase(SubSeq(s, 2, Len(s)))

----------------------------------------------------------------------------
(* Errors: the fields of a rejection that the pipeline reads.  status 0, code "" *)
(* and message "" stand for an absent field.                                    *)

Err(status, code, name, message) ==
    [status |-> status, code |-> code, name |-> name, message |-> message]

NoError == Err(0, "", "", "")

ErrServiceUnavailable == Err(503, "", "Error", "Service Unavailable")
ErrConnReset          == Err(0, "ECONNRESET", "Error", "socket hang up")
ErrRateLimitNamed     == Err(0, "", "RateLimitError", "Too many requests")
ErrRateLimitMessage   == Err(0, "", "Error", "Rate limit reached for requests")
ErrQuotaMessage       == Err(0, "", "Error", "You exceeded your current quota")
ErrQuotaCapital       == Err(0, "", "Error", "Quota exceeded")
Err429Message         == Err(0, "", "Error", "Request failed with status code 429")
ErrUnauthorized       == Err(401, "", "Error", "Unauthorized")
ErrQuotaNamed         == Err(0, "", "InsufficientQuotaError", "No credits left")

\* the rejections the completion call is given in the model
Errors ==
    {ErrServiceUnavailable, ErrConnReset, ErrRateLimitNamed, ErrRateLimitMessage,
     ErrQuotaMessage, ErrQuotaCapital, Err429Message, ErrUnauthorized, ErrQuotaNamed}

----------------------------------------------------------------------------
(* RetryHandler *)

\* the RetryConfig handed to the constructor: maxRetries bounds the model, the
\* rest is RetryHandler.forOpenAI()
MaxRetries == 2
OpenAIMaxRetries == 5
InitialDelay == 2000
MaxDelay == 60000
BackoffNumerator == 5
BackoffDenominator == 2
RetryableStatusCodes == {429, 500, 502, 503, 504}

\* Math.random(), in hundredths
RandomHundredths == {0, 50, 99}

RECURSIVE Pow(_, _)
Pow(b, n) == IF n = 0 THEN 1 ELSE b * Pow(b, n - 1)

Min(a, b) == IF a <= b THEN a ELSE b

\* isRetryableError(error)
IsRetryableError(error) ==
    \/ Includes(error.message, "429") \/ Includes(error.message, "quota")
    \/ (error.status # 0 /\ error.status \in RetryableStatusCodes)
    \/ error.code = "ECONNRESET" \/ error.code = "ETIMEDOUT"
    \/ error.name = "InsufficientQuotaError" \/ error.name = "RateLimitError"

\* calculateDelay with a jitter of 5% either way
CalculateDelayJitterEitherWay(a, rnd) ==
    LET delay  == (InitialDelay * Pow(BackoffNumerator, a)) \div Pow(BackoffDenominator, a)
        jitter == ((rnd - 50) * delay) \div 1000
    IN  Min(delay + jitter, MaxDelay)

\* calculateDelay without the Math.min
CalculateDelayUnclamped(a, rnd) ==
    LET delay  == (InitialDelay * Pow(BackoffNumerator, a)) \div Pow(BackoffDenominator, a)
        jitter == (rnd * delay) \div 1000
    IN  delay + jitter

\* calculateDelay(attempt), rnd being Math.random() in hundredths; whole milliseconds
CalculateDelay(a, rnd) ==
    LET delay  == (InitialDelay * Pow(BackoffNumerator, a)) \div Pow(BackoffDenominator, a)
        jitter == (rnd * delay) \div 1000
    IN  Min(delay + jitter, MaxDelay)

\* attempt === this.config.maxRetries
IsLastAttempt(a) == a = maxRetries

\* the loop condition, attempt <= this.config.maxRetries
LoopContinues(a) == a <= maxRetries

\* the value fn resolves with at its n-th invocation
ResultOf(n) == n

\* executeWithRetry(fn, context) up to its first await
ExecuteWithRetryCall ==
    /\ rtPc = "idle"
    /\ IF ~retryEnabled
       THEN /\ rtPc' = "direct"
            /\ UNCHANGED attempt
       ELSE /\ rtPc' = "calling"
            /\ attempt' = 0
    /\ UNCHANGED <<retryEnabled, maxRetries, lastError, rtOutcome, rtLog, rtSleeps>>

\* executeWithRetry called on its own
ExecuteWithRetry == ExecuteWithRetryCall /\ UNCHANGED <<rlVars, bpVars, askVars, fmtVars, fmVars, cmpVars>>

\* await fn() returns
FnResolves ==
    /\ rtPc \in {"calling", "direct"}
    /\ rtLog' = Append(rtLog, [ok |-> TRUE, value |-> ResultOf(Len(rtLog) + 1), error |-> NoError])
    /\ rtPc' = "returned"
    /\ rtOutcome' = [ok |-> TRUE, value |-> ResultOf(Len(rtLog) + 1), error |-> NoError]
    /\ UNCHANGED <<rlVars, bpVars, askVars, fmtVars, fmVars, cmpVars, retryEnabled, maxRetries, attempt, lastError, rtSleeps>>

\* FnRejects with the error of the first failed attempt kept as the one to throw
FnRejectsKeepsFirstError(error, rnd) ==
    /\ rtPc \in {"calling", "direct"}
    /\ rtLog' = Append(rtLog, [ok |-> FALSE, value |-> 0, error |-> error])
    /\ LET kept == IF rtPc = "direct" \/ lastError = NoError THEN error ELSE lastError IN
       /\ lastError' = kept
       /\ IF rtPc = "direct" \/ ~IsRetryableError(error) \/ IsLastAttempt(attempt)
          THEN /\ rtPc' = "thrown"
               /\ rtOutcome' = [ok |-> FALSE, value |-> 0, error |-> kept]
               /\ UNCHANGED rtSleeps
          ELSE /\ rtPc' = "sleeping"
               /\ rtSleeps' = Append(rtSleeps, CalculateDelay(attempt, rnd))
               /\ UNCHANGED rtOutcome
    /\ UNCHANGED <<rlVars, bpVars, askVars, fmtVars, fmVars, cmpVars, retryEnabled, maxRetries, attempt>>

\* FnRejects with the backoff sleep taken before the error is classified
FnRejectsSleepsFirst(error, rnd) ==
    /\ rtPc \in {"calling", "direct"}
    /\ rtLog' = Append(rtLog, [ok |-> FALSE, value |-> 0, error |-> error])
    /\ lastError' = error
    /\ IF rtPc = "direct" \/ IsLastAttempt(attempt)
       THEN /\ rtPc' = "thrown"
            /\ rtOutcome' = [ok |-> FALSE, value |-> 0, error |-> error]
            /\ UNCHANGED rtSleeps
       ELSE /\ rtPc' = "sleeping"
            /\ rtSleeps' = Append(rtSleeps, CalculateDelay(attempt, rnd))
            /\ UNCHANGED rtOutcome
    /\ UNCHANGED <<rlVars, bpVars, askVars, fmtVars, fmVars, cmpVars, retryEnabled, maxRetries, attempt>>

\* await fn() throws error: the catch block
FnRejects(error, rnd) ==
    /\ rtPc \in {"calling", "direct"}
    /\ rtLog' = Append(rtLog, [ok |-> FALSE, value |-> 0, error |-> error])
    /\ IF rtPc = "direct"
       THEN /\ rtPc' = "thrown"
            /\ rtOutcome' = [ok |-> FALSE, value |-> 0, error |-> error]
            /\ UNCHANGED <<lastError, rtSleeps>>
       ELSE /\ lastError' = error
            /\ IF ~IsRetryableError(error) \/ IsLastAttempt(attempt)
               THEN /\ rtPc' = "thrown"
                    /\ rtOutcome' = [ok |-> FALSE, value |-> 0, error |-> error]
                    /\ UNCHANGED rtSleeps
               ELSE /\ rtPc' = "sleeping"
                    /\ rtSleeps' = Append(rtSleeps, CalculateDelay(attempt, rnd))
                    /\ UNCHANGED rtOutcome
    /\ UNCHANGED <<rlVars, bpVars, askVars, fmtVars, fmVars, cmpVars, retryEnabled, maxRetries, attempt>>

\* await this.sleep(delay) returns: attempt++, the loop condition, the next fn()
SleepDone ==
    /\ rtPc = "sleeping"
    /\ attempt' = attempt + 1
    /\ IF LoopContinues(attempt + 1)
       THEN /\ rtPc' = "calling"
            /\ UNCHANGED rtOutcome
       ELSE /\ rtPc' = "thrown"
            /\ rtOutcome' = [ok |-> FALSE, value |-> 0, error |-> lastError]
    /\ UNCHANGED <<rlVars, bpVars, askVars, fmtVars, fmVars, cmpVars, retryEnabled, maxRetries, lastError, rtLog, rtSleeps>>

\* no executeWithRetry call has been made
RetryIdle ==
    /\ rtPc = "idle"
    /\ attempt = 0
    /\ lastError = NoError
    /\ rtOutcome = [ok |-> FALSE, value |-> 0, error |-> NoError]
    /\ rtLog = <<>>
    /\ rtSleeps = <<>>

----------------------------------------------------------------------------
(* BatchProcessor *)

\* the BatchConfig handed to the constructor
MaxBatchSize == 3
BatchTimeoutMs == 100
PacingDelay == 50

MaxBatchRequests == 3
MaxBatchTicks == 3
BatchRequests == 1..MaxBatchRequests
BatchTickSteps == {50, 100}
NoTimer == -1

PromptItemParsing   == "Parse the provided item text into the schema"
PromptItemData      == "Parse the following item data: {text}"
PromptMonster       == "Summarize the monster stat block"

\* the prompts processRequest is given in the model
Prompts == {PromptItemParsing, PromptItemData, PromptMonster}

\* the rejections askLLM is given in the model
BatchErrors == {ErrUnauthorized}

AlphaNumerics == UpperCaseLetters \o LowerCaseLetters \o "0123456789"

RECURSIVE StripNonAlphaNumerics(_)
\* String.prototype.replace(/[^a-zA-Z0-9]/g, '')
StripNonAlphaNumerics(s) ==
    IF Len(s) = 0 THEN ""
    ELSE (IF Includes(AlphaNumerics, SubSeq(s, 1, 1)) THEN SubSeq(s, 1, 1) ELSE "")
         \o StripNonAlphaNumerics(SubSeq(s, 2, Len(s)))

\* String.prototype.substring(0, n)
Substring0(s, n) == SubSeq(s, 1, Min(n, Len(s)))

\* String.prototype.startsWith
StartsWith(s, p) == Len(s) >= Len(p) /\ SubSeq(s, 1, Len(p)) = p

\* isBatchable(promptText)
IsBatchable(promptText) ==
    \E pattern \in {"Parse the provided item text into",
                    "Extract the item name and description",
                    "Parse the following item data"} : Includes(promptText, pattern)

\* createBatchKey(promptText, schema)
CreateBatchKey(promptText) ==
    IF Includes(promptText, "Parse the provided item text into") THEN "item_parsing"
    ELSE IF Includes(promptText, "Extract the item name and description") THEN "item_extraction"
    ELSE "generic_" \o StripNonAlphaNumerics(Substring0(promptText, 50))

\* isBatchable and createBatchKey on the prompts of the model
Batchable == [prompt \in Prompts |-> IsBatchable(prompt)]
BatchKeyOf == [prompt \in Prompts |-> CreateBatchKey(prompt)]

BatchKeys == {BatchKeyOf[prompt] : prompt \in {q \in Prompts : Batchable[q]}}

\* the arguments of the r-th processRequest call: its own schema, inputs and options
SchemaOf(r)  == [kind |-> "schema", of |-> r]
InputsOf(r)  == [kind |-> "inputs", of |-> r]
OptionsOf(r) == [kind |-> "options", of |-> r]

ArgsOf(r, promptText) ==
    [promptText |-> promptText, outputSchema |-> SchemaOf(r), inputOptions |-> InputsOf(r),
     outputOptions |-> OptionsOf(r)]

NoArgs == [promptText |-> "", outputSchema |-> SchemaOf(0), inputOptions |-> InputsOf(0),
           outputOptions |-> OptionsOf(0)]

\* values askLLM resolves with: an object, or an array of objects
Object(call, index) == [isArray |-> FALSE, call |-> call, index |-> index, elems |-> <<>>]
Array(call, n) == [isArray |-> TRUE, call |-> call, index |-> 0,
                   elems |-> [i \in 1..n |-> Object(call, i)]]
NoValue == Object(0, 0)

Unsettled == [state |-> "pending", value |-> NoValue, error |-> NoError]
Resolved(v) == [state |-> "resolved", value |-> v, error |-> NoError]
Rejected(e) == [state |-> "rejected", value |-> NoValue, error |-> e]

\* a promise is settled by the first resolve or reject only
SettlePromise(promises, r, outcome) ==
    IF promises[r].state = "pending" THEN [promises EXCEPT ![r] = outcome] ELSE promises

\* an askLLM call of the batch processor: member is the position in the batch of
\* the request it is made for (0: the combined call; for a direct call flush is 0
\* and member the request itself)
Call(flush, member, promptText, outputSchema, inputOptions, outputOptions) ==
    [flush |-> flush, member |-> member, promptText |-> promptText,
     outputSchema |-> outputSchema, inputOptions |-> inputOptions,
     outputOptions |-> outputOptions, outcome |-> Unsettled]

\* askLLM(request.promptText, request.outputSchema, request.inputOptions, request.outputOptions)
OwnCall(args, flush, member, r) ==
    Call(flush, member, args[r].promptText, args[r].outputSchema,
         args[r].inputOptions, args[r].outputOptions)

\* processBatchedItemParsing: the combined askLLM call
CombinedCall(args, flush, requests) ==
    Call(flush, 0, "Parse the following monster items into the specified JSON schema format.",
         [kind |-> "array", of |-> args[requests[1]].outputSchema.of],
         [kind |-> "items", of |-> Len(requests)],
         args[requests[1]].outputOptions)

\* the call of flush f that is in flight
CallOf(log, f) == CHOOSE c \in 1..Len(log) : log[c].flush = f /\ log[c].outcome.state = "pending"

\* processBatch(batchKey) up to its first await, on the state st it is entered in;
\* args are the arguments of the requests. cause and elapsed (history) record what
\* flushed the batch and whether batchTimeoutMs had passed since its first member
\* was queued
ProcessBatch(st, args, batchKey, cause) ==
    LET requests == st.pending[batchKey]
        f == Len(st.flushes) + 1
    IN  IF requests = <<>> THEN st
        ELSE [pending |-> [st.pending EXCEPT ![batchKey] = <<>>],
              timers  |-> [st.timers EXCEPT ![batchKey] = NoTimer],
              queuedAt |-> [st.queuedAt EXCEPT ![batchKey] = <<>>],
              flushes |-> Append(st.flushes,
                            [key |-> batchKey, members |-> requests, index |-> 1, due |-> NoTimer,
                             cause |-> cause,
                             elapsed |-> now >= st.queuedAt[batchKey][1] + BatchTimeoutMs,
                             phase |-> IF Len(requests) = 1 THEN "single"
                                       ELSE IF StartsWith(batchKey, "item_parsing") THEN "combined"
                                       ELSE "sequential"]),
              log     |-> Append(st.log,
                            IF Len(requests) > 1 /\ StartsWith(batchKey, "item_parsing")
                            THEN CombinedCall(args, f, requests)
                            ELSE OwnCall(args, f, 1, requests[1]))]

BatchState ==
    [pending |-> pendingRequests, timers |-> batchTimers, queuedAt |-> queuedAt,
     flushes |-> flushes, log |-> askLog]

SetBatchState(st) ==
    /\ pendingRequests' = st.pending
    /\ batchTimers' = st.timers
    /\ queuedAt' = st.queuedAt
    /\ flushes' = st.flushes
    /\ askLog' = st.log

ArmTimerAlways(tms, batchKey, t) == [tms EXCEPT ![batchKey] = t + BatchTimeoutMs]

\* processRequest leaving without the setTimeout
ArmTimerNever(tms, batchKey, t) == tms

\* if (!this.batchTimers.has(batchKey)) this.batchTimers.set(batchKey, setTimeout(..., batchTimeoutMs))
ArmTimer(tms, batchKey, t) ==
    IF tms[batchKey] = NoTimer THEN [tms EXCEPT ![batchKey] = t + BatchTimeoutMs] ELSE tms

NextBatchRequest ==
    CHOOSE r \in BatchRequests :
        bpRequest[r] = NoArgs /\ \A q \in BatchRequests : bpRequest[q] = NoArgs => r <= q

\* processRequest(promptText, outputSchema, inputOptions, outputOptions)
ProcessRequest(r, promptText) ==
    /\ \E q \in BatchRequests : bpRequest[q] = NoArgs
    /\ r = NextBatchRequest
    /\ bpRequest' = [bpRequest EXCEPT ![r] = ArgsOf(r, promptText)]
    /\ IF ~enableBatching
       THEN /\ askLog' = Append(askLog,
                  Call(0, r, promptText, SchemaOf(r), InputsOf(r), OptionsOf(r)))
            /\ UNCHANGED <<pendingRequests, batchTimers, queuedAt, flushes>>
       ELSE IF ~Batchable[promptText]
       THEN /\ askLog' = Append(askLog,
                  Call(0, r, promptText, OptionsOf(r), InputsOf(r), OptionsOf(r)))
            /\ UNCHANGED <<pendingRequests, batchTimers, queuedAt, flushes>>
       ELSE LET batchKey == BatchKeyOf[promptText]
                batch == Append(pendingRequests[batchKey], r)
                pushed == [BatchState EXCEPT !.pending[batchKey] = batch,
                                             !.queuedAt[batchKey] = Append(@, now)]
            IN  IF Len(batch) >= MaxBatchSize
                THEN SetBatchState(ProcessBatch(pushed, [bpRequest EXCEPT ![r] = ArgsOf(r, promptText)], batchKey, "size"))
                ELSE SetBatchState([pushed EXCEPT !.timers = ArmTimer(pushed.timers, batchKey, now)])
    /\ UNCHANGED <<rlVars, rtVars, askVars, fmtVars, fmVars, cmpVars, enableBatching, bpPromise>>

\* the batch timer of batchKey comes due: setTimeout(() => this.processBatch(batchKey), batchTimeoutMs)
BatchTimerFires(batchKey) ==
    /\ batchTimers[batchKey] # NoTimer
    /\ batchTimers[batchKey] <= now
    /\ SetBatchState(ProcessBatch(BatchState, bpRequest, batchKey, "timer"))
    /\ UNCHANGED <<rlVars, rtVars, askVars, fmtVars, fmVars, cmpVars, enableBatching, bpRequest, bpPromise>>

CombinedAcceptedAnyArray(results, n) == results.isArray

\* Array.isArray(results) && results.length === requests.length
CombinedAccepted(results, n) == results.isArray /\ Len(results.elems) = n

DistributedResultFirst(results, index) == results.elems[1]

\* results.forEach((result, index) => requests[index].resolve(result)): what position index is given
DistributedResult(results, index) == results.elems[index]

RECURSIVE ResolveAll(_, _, _, _)
\* results.forEach(...), from position index on
ResolveAll(promises, requests, results, index) ==
    IF index > Len(results.elems) THEN promises
    ELSE ResolveAll(IF index <= Len(requests)
                    THEN SettlePromise(promises, requests[index],
                                       Resolved(DistributedResult(results, index)))
                    ELSE promises,
                    requests, results, index + 1)

\* the values call c may resolve with: an object or, for a combined call of n items,
\* also an array of n objects and an array of n - 1
ResultShapes == {"object", "array", "shortArray"}
Result(c, shape, n) ==
    CASE shape = "object" -> Object(c, 0)
      [] shape = "array" -> Array(c, n)
      [] shape = "shortArray" -> Array(c, n - 1)

\* processSequentially with the loop bound i < requests.length - 1
SequentialStepSkipsLast(fl, log, f, index) ==
    IF index < Len(fl[f].members)
    THEN /\ flushes' = [fl EXCEPT ![f].phase = "sequential", ![f].index = index, ![f].due = NoTimer]
         /\ askLog' = Append(log, OwnCall(bpRequest, f, index, fl[f].members[index]))
    ELSE /\ flushes' = [fl EXCEPT ![f].phase = "done", ![f].due = NoTimer]
         /\ askLog' = log

\* processSequentially(requests) entered, or resumed, at position index: the next askLLM call
SequentialStep(fl, log, f, index) ==
    IF index <= Len(fl[f].members)
    THEN /\ flushes' = [fl EXCEPT ![f].phase = "sequential", ![f].index = index, ![f].due = NoTimer]
         /\ askLog' = Append(log, OwnCall(bpRequest, f, index, fl[f].members[index]))
    ELSE /\ flushes' = [fl EXCEPT ![f].phase = "done", ![f].due = NoTimer]
         /\ askLog' = log

\* the askLLM call that flush f awaits resolves with a value of the given shape
FlushCallResolves(f, shape) ==
    /\ f \in 1..Len(flushes)
    /\ flushes[f].phase \in {"single", "combined", "sequential"}
    /\ LET c == CallOf(askLog, f)
           requests == flushes[f].members
           i == flushes[f].index
           result == Result(c, shape, Len(requests))
           log == [askLog EXCEPT ![c].outcome = Resolved(result)]
       IN  /\ flushes[f].phase # "combined" => shape = "object"
           /\ CASE flushes[f].phase = "single" ->
                     /\ bpPromise' = SettlePromise(bpPromise, requests[1], Resolved(result))
                     /\ flushes' = [flushes EXCEPT ![f].phase = "done"]
                     /\ askLog' = log
                [] flushes[f].phase = "combined" ->
                     IF CombinedAccepted(result, Len(requests))
                     THEN /\ bpPromise' = ResolveAll(bpPromise, requests, result, 1)
                          /\ flushes' = [flushes EXCEPT ![f].phase = "done"]
                          /\ askLog' = log
                     ELSE /\ SequentialStep(flushes, log, f, 1)
                          /\ UNCHANGED bpPromise
                [] flushes[f].phase = "sequential" ->
                     /\ bpPromise' = SettlePromise(bpPromise, requests[i], Resolved(result))
                     /\ askLog' = log
                     /\ IF i < Len(requests)
                        THEN flushes' = [flushes EXCEPT ![f].phase = "pacing", ![f].due = now + PacingDelay]
                        ELSE flushes' = [flushes EXCEPT ![f].phase = "done"]
    /\ UNCHANGED <<rlVars, rtVars, askVars, fmtVars, fmVars, cmpVars, enableBatching, pendingRequests, batchTimers, queuedAt, bpRequest>>

\* the askLLM call that flush f awaits rejects with error
FlushCallRejects(f, error) ==
    /\ f \in 1..Len(flushes)
    /\ flushes[f].phase \in {"single", "combined", "sequential"}
    /\ LET c == CallOf(askLog, f)
           requests == flushes[f].members
           i == flushes[f].index
           log == [askLog EXCEPT ![c].outcome = Rejected(error)]
       IN  CASE flushes[f].phase = "single" ->
                  /\ bpPromise' = SettlePromise(bpPromise, requests[1], Rejected(error))
                  /\ flushes' = [flushes EXCEPT ![f].phase = "done"]
                  /\ askLog' = log
             [] flushes[f].phase = "combined" ->
                  /\ SequentialStep(flushes, log, f, 1)
                  /\ UNCHANGED bpPromise
             [] flushes[f].phase = "sequential" ->
                  /\ bpPromise' = SettlePromise(bpPromise, requests[i], Rejected(error))
                  /\ SequentialStep(flushes, log, f, i + 1)
    /\ UNCHANGED <<rlVars, rtVars, askVars, fmtVars, fmVars, cmpVars, enableBatching, pendingRequests, batchTimers, queuedAt, bpRequest>>

\* processSequentially: the pacing delay between two requests is over
PacingDone(f) ==
    /\ f \in 1..Len(flushes)
    /\ flushes[f].phase = "pacing"
    /\ flushes[f].due <= now
    /\ SequentialStep(flushes, askLog, f, flushes[f].index + 1)
    /\ UNCHANGED <<rlVars, rtVars, askVars, fmtVars, fmVars, cmpVars, enableBatching, pendingRequests, batchTimers, queuedAt, bpRequest, bpPromise>>

\* the call of request r that is not part of a flush
DirectCallOf(log, r) == CHOOSE c \in 1..Len(log) : log[c].flush = 0 /\ log[c].member = r

\* the askLLM call that processRequest returned for r without batching settles:
\* it resolves (error is NoError) or rejects with error
DirectCallSettles(r, error) ==
    /\ \E c \in 1..Len(askLog) : askLog[c].flush = 0 /\ askLog[c].member = r
    /\ LET c == DirectCallOf(askLog, r)
           outcome == IF error = NoError THEN Resolved(Object(c, 0)) ELSE Rejected(error)
       IN  /\ askLog[c].outcome.state = "pending"
           /\ askLog' = [askLog EXCEPT ![c].outcome = outcome]
           /\ bpPromise' = SettlePromise(bpPromise, r, outcome)
    /\ UNCHANGED <<rlVars, rtVars, askVars, fmtVars, fmVars, cmpVars, enableBatching, pendingRequests, batchTimers, queuedAt, bpRequest, flushes>>

RECURSIVE KeysInOrder(_, _)
\* this.pendingRequests.keys(): the keys in the order they were set, which is the
\* order in which their first members were queued
KeysInOrder(pending, keys) ==
    IF keys = {} THEN <<>>
    ELSE LET first == CHOOSE k \in keys : \A j \in keys : pending[k][1] <= pending[j][1]
         IN  <<first>> \o KeysInOrder(pending, keys \ {first})

\* the loop of setBatching leaving after the first key
ProcessBatchesFirstOnly(st, args, keys) ==
    IF keys = <<>> THEN st ELSE ProcessBatch(st, args, Head(keys), "disabled")

RECURSIVE ProcessBatches(_, _, _)
\* for (const batchKey of this.pendingRequests.keys()) this.processBatch(batchKey)
ProcessBatches(st, args, keys) ==
    IF keys = <<>> THEN st
    ELSE ProcessBatches(ProcessBatch(st, args, Head(keys), "disabled"), args, Tail(keys))

\* setBatching(enabled)
SetBatching(enabled) ==
    /\ enableBatching # enabled
    /\ enableBatching' = enabled
    /\ IF ~enabled
       THEN SetBatchState(ProcessBatches(BatchState, bpRequest,
                KeysInOrder(pendingRequests, {k \in BatchKeys : pendingRequests[k] # <<>>})))
       ELSE UNCHANGED <<pendingRequests, batchTimers, queuedAt, flushes, askLog>>
    /\ UNCHANGED <<rlVars, rtVars, askVars, fmtVars, fmVars, cmpVars, bpRequest, bpPromise>>

\* time passes for the batch processor: as for Tick, a timer that is already due
\* runs before the clock moves again
TickBatch(d) ==
    /\ ticks < MaxBatchTicks
    /\ \A k \in BatchKeys : batchTimers[k] = NoTimer \/ batchTimers[k] > now
    /\ \A f \in 1..Len(flushes) : flushes[f].phase = "pacing" => flushes[f].due > now
    /\ ticks' = ticks + 1
    /\ now' = now + d
    /\ UNCHANGED <<rateLimitEnabled, requestQueue, activeRequests, requestTimestamps, timers,
                   rlState, dispatchLog, lastWait, rtVars, bpVars, askVars, fmtVars, fmVars, cmpVars>>

\* the batch processor as constructed, batching enabled (the default configuration)
BatchIdle ==
    /\ enableBatching = TRUE
    /\ pendingRequests = [k \in BatchKeys |-> <<>>]
    /\ batchTimers = [k \in BatchKeys |-> NoTimer]
    /\ queuedAt = [k \in BatchKeys |-> <<>>]
    /\ bpRequest = [r \in BatchRequests |-> NoArgs]
    /\ bpPromise = [r \in BatchRequests |-> Unsettled]
    /\ flushes = <<>>
    /\ askLog = <<>>

----------------------------------------------------------------------------
(* APIErrorHandler *)

\* error.message || error.toString()
ErrorMessage(error) == IF error.message # "" THEN error.message ELSE error.name

\* isQuotaExceededError(error)
IsQuotaExceededError(error) ==
    LET message == ToLowerCase(error.message) IN
    \/ Includes(message, "quota") /\ Includes(message, "exceeded")
    \/ Includes(message, "insufficient_quota")
    \/ error.name = "InsufficientQuotaError"
    \/ error.code = "insufficient_quota"

\* isRateLimitError(error)
IsRateLimitError(error) ==
    LET message == ToLowerCase(error.message) IN
    \/ error.status = 429
    \/ Includes(message, "rate limit")
    \/ Includes(message, "429")
    \/ error.name = "RateLimitError"

\* getGenericErrorMessage(status)
GetGenericErrorMessage(status) ==
    CASE status = 401 -> "Invalid or missing API key"
      [] status = 403 -> "Access forbidden - check API key permissions"
      [] status = 404 -> "Requested resource not found"
      [] status = 500 -> "OpenAI server error"
      [] status = 502 -> "Bad gateway - OpenAI service issue"
      [] status = 503 -> "Service temporarily unavailable"
      [] OTHER -> "Request failed"

\* getGenericErrorSuggestion(status)
GetGenericErrorSuggestion(status) ==
    CASE status = 401 -> "Check your OpenAI API key in the module settings."
      [] status = 403 -> "Verify your API key has the necessary permissions for GPT models."
      [] status = 404 -> "The requested model may not be available with your API key."
      [] status \in {500, 502, 503} ->
           "This is a temporary OpenAI service issue. Please try again in a few minutes."
      [] OTHER -> "Check your internet connection and try again."

\* analyzeError with the rate-limit test made before the quota test
AnalyzeErrorRateLimitFirst(error) ==
    IF IsRateLimitError(error)
    THEN [isQuotaError |-> FALSE, isRateLimitError |-> TRUE,
          userMessage |-> "API rate limit exceeded. Please wait and try again.",
          technicalMessage |-> ErrorMessage(error),
          suggestedAction |-> "The system will automatically retry with exponential backoff. If this persists, consider reducing concurrent requests."]
    ELSE IF IsQuotaExceededError(error)
    THEN [isQuotaError |-> TRUE, isRateLimitError |-> FALSE,
          userMessage |-> "OpenAI API quota exceeded. Please check your billing and usage limits.",
          technicalMessage |-> ErrorMessage(error),
          suggestedAction |-> "Visit https://platform.openai.com/usage to check your quota and billing status. You may need to add credits or upgrade your plan."]
    ELSE IF error.status >= 400
    THEN [isQuotaError |-> FALSE, isRateLimitError |-> FALSE,
          userMessage |-> "OpenAI API error (" \o ToString(error.status) \o "): "
                            \o GetGenericErrorMessage(error.status),
          technicalMessage |-> ErrorMessage(error),
          suggestedAction |-> GetGenericErrorSuggestion(error.status)]
    ELSE [isQuotaError |-> FALSE, isRateLimitError |-> FALSE,
          userMessage |-> "An unexpected error occurred while communicating with OpenAI.",
          technicalMessage |-> ErrorMessage(error),
          suggestedAction |-> "Please check your internet connection and API key configuration."]

\* analyzeError(error); the errors of the model carry no retry-after header, so
\* parseRetryAfter gives null
AnalyzeError(error) ==
    IF IsQuotaExceededError(error)
    THEN [isQuotaError |-> TRUE, isRateLimitError |-> FALSE,
          userMessage |-> "OpenAI API quota exceeded. Please check your billing and usage limits.",
          technicalMessage |-> ErrorMessage(error),
          suggestedAction |-> "Visit https://platform.openai.com/usage to check your quota and billing status. You may need to add credits or upgrade your plan."]
    ELSE IF IsRateLimitError(error)
    THEN [isQuotaError |-> FALSE, isRateLimitError |-> TRUE,
          userMessage |-> "API rate limit exceeded. Please wait and try again.",
          technicalMessage |-> ErrorMessage(error),
          suggestedAction |-> "The system will automatically retry with exponential backoff. If this persists, consider reducing concurrent requests."]
    ELSE IF error.status >= 400
    THEN [isQuotaError |-> FALSE, isRateLimitError |-> FALSE,
          userMessage |-> "OpenAI API error (" \o ToString(error.status) \o "): "
                            \o GetGenericErrorMessage(error.status),
          technicalMessage |-> ErrorMessage(error),
          suggestedAction |-> GetGenericErrorSuggestion(error.status)]
    ELSE [isQuotaError |-> FALSE, isRateLimitError |-> FALSE,
          userMessage |-> "An unexpected error occurred while communicating with OpenAI.",
          technicalMessage |-> ErrorMessage(error),
          suggestedAction |-> "Please check your internet connection and API key configuration."]

\* displayError: the title
Title(errorInfo) ==
    IF errorInfo.isQuotaError THEN "OpenAI Quota Exceeded"
    ELSE IF errorInfo.isRateLimitError THEN "Rate Limit Exceeded"
    ELSE "API Error"

\* displayError: the notification handed to ui.notifications.error, the markup of
\* its content left out
Notification(errorInfo, context) ==
    [title |-> Title(errorInfo), userMessage |-> errorInfo.userMessage, context |-> context,
     suggestedAction |-> errorInfo.suggestedAction,
     technicalMessage |-> errorInfo.technicalMessage, permanent |-> TRUE]

\* displayError: its console.error
DisplayEntry(errorInfo, context) ==
    [level |-> "error", title |-> Title(errorInfo), context |-> context, errorInfo |-> errorInfo]

\* what calling a member of the undefined ui.notifications throws
ErrNotifications == Err(0, "", "TypeError", "Cannot read properties of undefined (reading 'error')")

\* rateLimiter.getStatus() as logRateLimiterStatus logs it
StatusEntry ==
    [level |-> "log", activeRequests |-> activeRequests, queuedRequests |-> Len(requestQueue),
     requestsInLastMinute |-> RequestsInLastMinute(requestTimestamps, now),
     requestsInLastSecond |-> RequestsInLastSecond(requestTimestamps, now),
     canMakeRequest |-> CanMakeRequest(CleanOld(requestTimestamps, now), now)]

----------------------------------------------------------------------------
(* askLLM *)

\* the outputOptions the callers of the model pass: overrides (field -> value)
\* and deletions
NoOverrides == <<>>
OutputOptions ==
    {[overrides |-> NoOverrides, deletions |-> {}],
     [overrides |-> [type |-> "feat"], deletions |-> {"img"}],
     [overrides |-> [name |-> "Bite", type |-> "weapon"], deletions |-> {"type"}]}

\* the object the chain parsed out of the completion, for the value fn resolved with
ParsedOutput(value) == [name |-> "Claw", type |-> "spell", img |-> "icon.svg", data |-> value]

\* for (const [field, override] of Object.entries(outputOptions.overrides)) output[field] = override
ApplyOverrides(output, overrides) ==
    [field \in DOMAIN output \cup DOMAIN overrides |->
        IF field \in DOMAIN overrides THEN overrides[field] ELSE output[field]]

\* for (const field of outputOptions.deletions) delete output[field]
ApplyDeletions(output, deletions) == [field \in DOMAIN output \ deletions |-> output[field]]

\* `LLM parsing: ${promptText.slice(0, 100)}...`
Context(promptText) == "LLM parsing: " \o Substring0(promptText, 100) \o "..."

NoResult == [ok |-> FALSE, value |-> <<>>, error |-> NoError]

\* completion texts that do not validate against the output schema
ResponseTexts == {"No item here", "Hit Points 429"}

\* what chain.invoke rejects with when the StructuredOutputParser of the chain
\* cannot validate the completion: an OutputParserException whose message quotes
\* the completion text
ParseFailure(text) ==
    Err(0, "", "OutputParserException", "Failed to parse. Text: \"" \o text \o "\". Error: ZodError")

\* a 429 response of the provider for an exhausted quota
ErrQuota429 == Err(429, "insufficient_quota", "Error", "You exceeded your current quota")

\* the rejections of the completion call inside askLLM
AskErrors ==
    {ErrServiceUnavailable, ErrUnauthorized, ErrRateLimitMessage, ErrQuotaNamed, ErrQuota429}
        \cup {ParseFailure(text) : text \in ResponseTexts}

\* askLLM(promptText, outputSchema, inputOptions, outputOptions) up to its await:
\* retryHandler.executeWithRetry(() => rateLimiter.execute(() => chain.invoke(...)))
AskLLM(promptText, outputOptions) ==
    /\ askPc = "idle"
    /\ askPc' = "awaiting"
    /\ askArgs' = [promptText |-> promptText, outputOptions |-> outputOptions]
    /\ ExecuteWithRetryCall
    /\ UNCHANGED <<rlVars, bpVars, fmtVars, fmVars, cmpVars, askResult, notificationsReady, notifications, consoleLog>>

\* the await returns, with the deletions made before the overrides
AskReturnsDeletionsFirst ==
    /\ askPc = "awaiting"
    /\ rtPc = "returned"
    /\ askPc' = "returned"
    /\ askResult' = [ok |-> TRUE, error |-> NoError,
                     value |-> ApplyOverrides(
                                  ApplyDeletions(ParsedOutput(rtOutcome.value),
                                                 askArgs.outputOptions.deletions),
                                  askArgs.outputOptions.overrides)]
    /\ UNCHANGED <<rlVars, rtVars, bpVars, fmtVars, fmVars, cmpVars, askArgs, notificationsReady, notifications, consoleLog>>

\* the await returns: the overrides, then the deletions, then the return
AskReturns ==
    /\ askPc = "awaiting"
    /\ rtPc = "returned"
    /\ askPc' = "returned"
    /\ askResult' = [ok |-> TRUE, error |-> NoError,
                     value |-> ApplyDeletions(
                                  ApplyOverrides(ParsedOutput(rtOutcome.value),
                                                 askArgs.outputOptions.overrides),
                                  askArgs.outputOptions.deletions)]
    /\ UNCHANGED <<rlVars, rtVars, bpVars, fmtVars, fmVars, cmpVars, askArgs, notificationsReady, notifications, consoleLog>>

\* the await throws: the catch block. analyzeError, displayError (which throws
\* where ui.notifications is not there), logRateLimiterStatus (whose getStatus()
\* drops the old timestamps), throw error
AskCatches ==
    /\ askPc = "awaiting"
    /\ rtPc = "thrown"
    /\ askPc' = "thrown"
    /\ LET error     == rtOutcome.error
           errorInfo == AnalyzeError(error)
           context   == Context(askArgs.promptText)
       IN  IF ~notificationsReady
           THEN /\ askResult' = [ok |-> FALSE, value |-> <<>>, error |-> ErrNotifications]
                /\ UNCHANGED <<notifications, consoleLog, requestTimestamps>>
           ELSE /\ notifications' = Append(notifications, Notification(errorInfo, context))
                /\ consoleLog' = consoleLog \o <<DisplayEntry(errorInfo, context), StatusEntry>>
                /\ requestTimestamps' = CleanOld(requestTimestamps, now)
                /\ askResult' = [ok |-> FALSE, value |-> <<>>, error |-> error]
    /\ UNCHANGED <<now, rateLimitEnabled, requestQueue, activeRequests, timers, rlState, ticks,
                   dispatchLog, lastWait, rtVars, bpVars, fmtVars, fmVars, cmpVars, askArgs, notificationsReady>>

\* no askLLM call has been made; the host's notifications are there
AskIdle ==
    /\ askPc = "idle"
    /\ askArgs = [promptText |-> "", outputOptions |-> [overrides |-> NoOverrides, deletions |-> {}]]
    /\ askResult = NoResult
    /\ notificationsReady = TRUE
    /\ notifications = <<>>
    /\ consoleLog = <<>>

----------------------------------------------------------------------------
(* Foundry5eItemFormatter *)

\* the format() calls made on a pool of items, and the size of the pool
MaxFormats == 3
PoolSize == 2

\* a nullable or optional number: Null for null and undefined, Num(n) for n
Null == <<>>
Num(n) == <<n>>

\* the truthiness of a nullable number
Truthy(v) == v # Null /\ v[1] # 0

\* the items handed to format(). itemType "" is an item without itemType (the
\* legacy items) and "wondrous" a value outside the switch; an item without save
\* is one with neither ability nor dc, one without uses one with value null, one
\* without properties one with the empty list
ItemTypes == {"", "weapon", "equipment", "tool", "loot", "backpack", "consumable", "spell", "wondrous"}
ActionTypes == {"meleeWeaponAttack", "rangedWeaponAttack", "meleeSpellAttack", "savingThrow", "other"}
SaveAbilities == {"", "dex"}
SaveDCs == {Null, Num(0), Num(13)}
UsesValues == {Null, Num(0), Num(3), Num(-1)}
MagicalBonuses == {Null, Num(0), Num(2)}

\* damage.parts: [formula, type] pairs
DamagePartLists ==
    { <<>>,
      << <<"1d8 + @mod", "slashing">> >>,
      << <<"1d4", "piercing">>, <<"2d10", "poison">> >>,
      << <<"1d8 + @mod", "slashing">>, <<"2d6 + @mod", "fire">> >>,
      << <<"1d6+@mod", "piercing">>, <<"5", "poison">>, <<"12d4", "fire">> >> }

ParsedItems ==
    [name : {"Flame Tongue"}, description : {"A blade"}, itemType : ItemTypes,
     actionType : ActionTypes, rarity : {""}, attunement : {""},
     magicalBonus : MagicalBonuses, properties : {<<"Versatile">>},
     damage : [parts : DamagePartLists],
     save : [ability : SaveAbilities, dc : SaveDCs], uses : [value : UsesValues]]

\* get type() with the itemType switch left out
TypeFromActionType(item) ==
    IF item.actionType \in {"meleeWeaponAttack", "rangedWeaponAttack"} THEN "weapon" ELSE "feat"

\* get type()
Type(item) ==
    IF item.itemType # ""
    THEN CASE item.itemType = "weapon" -> "weapon"
           [] item.itemType \in {"equipment", "tool", "loot", "backpack"} -> "equipment"
           [] item.itemType = "consumable" -> "feat"
           [] item.itemType = "spell" -> "spell"
           [] OTHER -> "equipment"
    ELSE CASE item.actionType \in {"meleeWeaponAttack", "rangedWeaponAttack"} -> "weapon"
           [] OTHER -> "feat"

\* get magicalBonus()
MagicalBonus(item) == IF Truthy(item.magicalBonus) THEN item.magicalBonus ELSE Null

\* Number.prototype.toString of the magical bonus, '' where there is none
BonusString(item) == IF MagicalBonus(item) # Null THEN ToString(MagicalBonus(item)[1]) ELSE ""

Digits == "0123456789"

IsDigit(c) == Len(c) = 1 /\ Includes(Digits, c)

DigitValue(c) == (CHOOSE k \in 1..Len(Digits) : SubSeq(Digits, k, k) = c) - 1

RECURSIVE DigitRunEnd(_, _)
\* the last position of the run of digits that starts at position i of s
DigitRunEnd(s, i) ==
    IF i < Len(s) /\ IsDigit(SubSeq(s, i + 1, i + 1)) THEN DigitRunEnd(s, i + 1) ELSE i

RECURSIVE ParseInt(_)
\* parseInt of a string of digits
ParseInt(s) ==
    IF Len(s) = 0 THEN 0
    ELSE 10 * ParseInt(SubSeq(s, 1, Len(s) - 1)) + DigitValue(SubSeq(s, Len(s), Len(s)))

\* a match of /(\d+)d(\d+)/ starts at position i of s
DiceMatchAt(s, i) ==
    /\ IsDigit(SubSeq(s, i, i))
    /\ LET e == DigitRunEnd(s, i) IN
       /\ e + 2 <= Len(s)
       /\ SubSeq(s, e + 1, e + 1) = "d"
       /\ IsDigit(SubSeq(s, e + 2, e + 2))

\* damage.match(/(\d+)d(\d+)/): Null, or the two groups through parseInt
DiceMatch(s) ==
    IF \E i \in 1..Len(s) : DiceMatchAt(s, i)
    THEN LET i == CHOOSE i \in 1..Len(s) :
                     DiceMatchAt(s, i) /\ \A j \in 1..(i - 1) : ~DiceMatchAt(s, j)
             e == DigitRunEnd(s, i)
         IN  <<ParseInt(SubSeq(s, i, e)), ParseInt(SubSeq(s, e + 2, DigitRunEnd(s, e + 2)))>>
    ELSE Null

\* one entry of an activity's damage.parts
DamagePart(number, denomination, bonus, type) ==
    [custom |-> [enabled |-> FALSE, formula |-> ""],
     number |-> number, denomination |-> denomination, bonus |-> bonus,
     types |-> <<type>>, scaling |-> [number |-> 1]]

\* the callback of the map in getBaseDamageParts(), index 0-based
BaseDamagePart(item, part, index) ==
    LET damage == part[1]
        shouldApplyMagicalBonus == index = 0 /\ MagicalBonus(item) # Null
        damageMatch == DiceMatch(damage)
        bonus == IF Includes(damage, "+ @mod") \/ Includes(damage, "@mod")
                 THEN (IF shouldApplyMagicalBonus THEN "@mod + " \o BonusString(item) ELSE "@mod")
                 ELSE (IF shouldApplyMagicalBonus THEN BonusString(item) ELSE "")
    IN  DamagePart(IF damageMatch # Null THEN Num(damageMatch[1]) ELSE Null,
                   IF damageMatch # Null THEN Num(damageMatch[2]) ELSE Null,
                   bonus, part[2])

\* getBaseDamageParts() with the magical bonus applied to every part
GetBaseDamagePartsBonusOnAll(item) ==
    [i \in 1..Len(item.damage.parts) |-> BaseDamagePart(item, item.damage.parts[i], 0)]

\* getBaseDamageParts()
GetBaseDamageParts(item) ==
    [i \in 1..Len(item.damage.parts) |-> BaseDamagePart(item, item.damage.parts[i], i - 1)]

\* the callback of the map in getSaveDamageParts()
SaveDamagePart(part) ==
    LET match == DiceMatch(part[1])
    IN  DamagePart(IF match # Null THEN Num(match[1]) ELSE Num(2),
                   IF match # Null THEN Num(match[2]) ELSE Num(10),
                   "", part[2])

\* getSaveDamageParts() with the slice left out
GetSaveDamagePartsAll(item) ==
    IF Len(item.damage.parts) < 2 THEN <<>>
    ELSE [i \in 1..Len(item.damage.parts) |-> SaveDamagePart(item.damage.parts[i])]

\* getSaveDamageParts()
GetSaveDamageParts(item) ==
    IF Len(item.damage.parts) < 2 THEN <<>>
    ELSE LET specialDamageParts == SubSeq(item.damage.parts, 2, Len(item.damage.parts))
         IN  [i \in 1..Len(specialDamageParts) |-> SaveDamagePart(specialDamageParts[i])]

\* createAttackActivity(), createSaveActivity(), createUtilityActivity(): the
\* activity by its _id, its type and what it takes from the item
Activity(item, key) ==
    CASE key = "dnd5eactivity000" ->
           [_id |-> key, type |-> "attack",
            attack |-> [bonus |-> BonusString(item)],
            damage |-> [includeBase |-> TRUE, parts |-> GetBaseDamageParts(item)]]
      [] key = "dnd5eactivity100" ->
           [_id |-> key, type |-> "save",
            damage |-> [onSave |-> "half", parts |-> GetSaveDamageParts(item)],
            save |-> [ability |-> <<IF item.save.ability # "" THEN item.save.ability ELSE "con">>,
                      dc |-> [formula |-> IF Truthy(item.save.dc) THEN ToString(item.save.dc[1])
                                          ELSE "15"]]]
      [] OTHER -> [_id |-> key, type |-> "utility"]

NoActivities == <<>>

\* get activities() with the save activity added for any save ability
ActivitiesSaveOnAbility(item) ==
    IF Type(item) # "weapon" THEN NoActivities
    ELSE [key \in {"dnd5eactivity000"}
                  \cup (IF item.save.ability # "" THEN {"dnd5eactivity100"} ELSE {})
                  \cup (IF Truthy(item.uses.value) /\ item.uses.value[1] > 0
                        THEN {"dnd5eactivity300"} ELSE {})
            |-> Activity(item, key)]

\* get activities()
Activities(item) ==
    IF Type(item) # "weapon" THEN NoActivities
    ELSE [key \in {"dnd5eactivity000"}
                  \cup (IF item.save.ability # "" /\ Truthy(item.save.dc)
                        THEN {"dnd5eactivity100"} ELSE {})
                  \cup (IF Truthy(item.uses.value) /\ item.uses.value[1] > 0
                        THEN {"dnd5eactivity300"} ELSE {})
            |-> Activity(item, key)]

RECURSIVE Trim(_)
\* String.prototype.trim
Trim(s) ==
    IF Len(s) > 0 /\ SubSeq(s, 1, 1) = " " THEN Trim(SubSeq(s, 2, Len(s)))
    ELSE IF Len(s) > 0 /\ SubSeq(s, Len(s), Len(s)) = " " THEN Trim(SubSeq(s, 1, Len(s) - 1))
    ELSE s

\* WEAPON_PROPERTY_MAPPING
WeaponPropertyMapping ==
    [versatile |-> "ver", finesse |-> "fin", light |-> "lgt", heavy |-> "hvy", reach |-> "rch",
     thrown |-> "thr", ammunition |-> "amm", loading |-> "lod", special |-> "spc",
     silvered |-> "sil", adamantine |-> "ada", magical |-> "mgc", monk |-> "mnk",
     improvised |-> "imp", focus |-> "foc", returning |-> "ret"]
    @@ ("two-handed" :> "two")

\* the callback of the map in mapWeaponProperties()
MapWeaponProperty(prop) ==
    LET normalized == Trim(ToLowerCase(prop))
    IN  IF normalized \in DOMAIN WeaponPropertyMapping
        THEN WeaponPropertyMapping[normalized] ELSE normalized

\* mapWeaponProperties(properties): a new array, the empty strings filtered out
MapWeaponProperties(properties) ==
    SelectSeq([i \in 1..Len(properties) |-> MapWeaponProperty(properties[i])],
              LAMBDA p : p # "")

MagicalRarities == {"uncommon", "rare", "veryRare", "legendary", "artifact"}
MagicalKeywords == {"magic", "magical", "spell", "enchant", "bonus to attack", "bonus to damage"}

\* isMagicalItem()
IsMagicalItem(item) ==
    \/ Truthy(item.magicalBonus) /\ item.magicalBonus[1] > 0
    \/ item.rarity \in MagicalRarities
    \/ item.attunement = "required"
    \/ LET description == ToLowerCase(item.description)
       IN  \E keyword \in MagicalKeywords : Includes(description, keyword)

SeqRange(s) == {s[i] : i \in 1..Len(s)}

\* get properties() with 'mgc' pushed on the item's own list
PropertiesCallPushOnBase(item) ==
    LET baseProperties == item.properties
        mappedProperties == MapWeaponProperties(baseProperties)
        push == IsMagicalItem(item) /\ "mgc" \notin SeqRange(mappedProperties)
    IN  [returns |-> mappedProperties,
         properties |-> IF push THEN Append(baseProperties, "mgc") ELSE baseProperties]

\* get properties() without the test for an 'mgc' already present
PropertiesCallAlwaysPush(item) ==
    LET baseProperties == item.properties
        mappedProperties == MapWeaponProperties(baseProperties)
        push == IsMagicalItem(item)
    IN  [returns |-> IF push THEN Append(mappedProperties, "mgc") ELSE mappedProperties,
         properties |-> baseProperties]

\* get properties(): what it returns, and the item's properties after the call
\* ('mgc' is pushed on the array mapWeaponProperties() built)
PropertiesCall(item) ==
    LET baseProperties == item.properties
        mappedProperties == MapWeaponProperties(baseProperties)
        push == IsMagicalItem(item) /\ "mgc" \notin SeqRange(mappedProperties)
    IN  [returns |-> IF push THEN Append(mappedProperties, "mgc") ELSE mappedProperties,
         properties |-> baseProperties]

\* WEAPON_TYPE_MAPPING
WeaponTypeMapping ==
    ("simple melee" :> "simpleM") @@ ("simple ranged" :> "simpleR")
    @@ ("martial melee" :> "martialM") @@ ("martial ranged" :> "martialR")
    @@ ("natural" :> "natural") @@ ("improvised" :> "improv")

\* the name lists of determineWeaponType()
SimpleWeaponNames ==
    {"club", "dagger", "dart", "javelin", "mace", "quarterstaff", "sickle", "spear", "crossbow", "shortbow"}
SimpleRangedNames == {"bow", "crossbow", "dart", "javelin"}
MartialMeleeNames ==
    {"longsword", "shortsword", "rapier", "scimitar", "battleaxe", "greataxe", "greatsword", "maul", "warhammer"}
MartialRangedNames == {"longbow", "heavy crossbow", "hand crossbow"}
DefaultRangedNames == {"bow", "crossbow", "sling"}

\* determineWeaponType(weaponCategory, weaponName)
DetermineWeaponType(weaponCategory, weaponName) ==
    LET category == Trim(ToLowerCase(weaponCategory))
        name == ToLowerCase(weaponName)
    IN  IF category \in DOMAIN WeaponTypeMapping THEN WeaponTypeMapping[category]
        ELSE IF \E w \in SimpleWeaponNames : Includes(name, w)
        THEN IF \E w \in SimpleRangedNames : Includes(name, w) THEN "simpleR" ELSE "simpleM"
        ELSE IF \E w \in MartialMeleeNames : Includes(name, w) THEN "martialM"
        ELSE IF \E w \in MartialRangedNames : Includes(name, w) THEN "martialR"
        ELSE IF \E w \in DefaultRangedNames : Includes(name, w) THEN "simpleR"
        ELSE "martialM"

\* parsedItem[field] || '' for an optional field of the schema
OptionalField(item, field) == IF field \in DOMAIN item THEN item[field] ELSE ""

\* get systemType() of a weapon: its value
SystemType(item) ==
    LET weaponType == OptionalField(item, "weaponType")
    IN  [value |-> IF weaponType # "" THEN weaponType
                   ELSE DetermineWeaponType(OptionalField(item, "itemSubtype"), item.name)]

\* get system(): the fields taken from the item's bonus, damage and properties,
\* and the type of a weapon
System(item) ==
    CASE Type(item) = "weapon" ->
           [attackBonus |-> BonusString(item), damage |-> item.damage,
            type |-> SystemType(item),
            properties |-> PropertiesCall(item).returns,
            magicalBonus |-> MagicalBonus(item),
            activities |-> Activities(item)]
      [] Type(item) = "equipment" ->
           [attackBonus |-> BonusString(item), damage |-> item.damage,
            properties |-> PropertiesCall(item).returns]
      [] OTHER ->
           [attackBonus |-> BonusString(item), damage |-> item.damage]

\* what format(parsedItem) returns
Formatted(item) == [name |-> item.name, type |-> Type(item), system |-> System(item)]

\* the item after format(parsedItem): the properties getter has run for a
\* weapon and for equipment
ParsedItemAfter(item) ==
    IF Type(item) \in {"weapon", "equipment"}
    THEN [item EXCEPT !.properties = PropertiesCall(item).properties]
    ELSE item

NotFormatted == [name |-> "", type |-> "", system |-> <<>>]

NoItem ==
    [name |-> "", description |-> "", itemType |-> "", actionType |-> "other", rarity |-> "",
     attunement |-> "", magicalBonus |-> Null, properties |-> <<>>, damage |-> [parts |-> <<>>],
     save |-> [ability |-> "", dc |-> Null], uses |-> [value |-> Null]]

\* static format(parsedItem)
Format ==
    /\ formatted = NotFormatted
    /\ formatted' = Formatted(parsedItem)
    /\ parsedItem' = ParsedItemAfter(parsedItem)
    /\ UNCHANGED <<rlVars, rtVars, bpVars, askVars, fmVars, cmpVars, itemPool, formatLog>>

\* items that differ in what isMagicalItem() looks at and in how their own
\* properties name the magical property
MagicItems ==
    [name : {"Blade"}, description : {"A blade", "A Magic blade"},
     itemType : {"weapon", "equipment"},
     actionType : {"other"}, rarity : {"", "common", "rare"}, attunement : {"", "required"},
     magicalBonus : MagicalBonuses,
     properties : {<<>>, <<"Light">>, <<"Magical">>, <<"mgc", "Light">>, <<"Magical", "mgc">>},
     damage : [parts : {<<>>}],
     save : [ability : {""}, dc : {Null}], uses : [value : {Null}]]

\* weapons that differ in name, subtype and explicit weaponType
WeaponNames ==
    {"Longsword", "Blowgun", "Shortbow", "Heavy Crossbow", "Sling", "Dart", "Warhammer",
     "Elven Bow", "Longbow", "Whip", "Dagger"}

WeaponItems ==
    [name : WeaponNames, description : {""}, itemType : {"weapon"},
     weaponType : {"", "simpleM", "martialR"}, itemSubtype : {"", " Martial Ranged", "polearm", "Natural"},
     actionType : {"meleeWeaponAttack"}, rarity : {""}, attunement : {""},
     magicalBonus : {Null}, properties : {<<>>},
     damage : [parts : {<<>>}],
     save : [ability : {""}, dc : {Null}], uses : [value : {Null}]]

\* the items a caller holds and formats again and again
PoolItems ==
    [name : {"Mace"}, description : {""},
     itemType : {"weapon", "equipment"},
     actionType : {"other"}, rarity : {""}, attunement : {"", "required"},
     magicalBonus : {Null}, properties : {<<"Light">>, <<" Heavy ", "mgc">>},
     damage : [parts : {<<>>}],
     save : [ability : {""}, dc : {Null}], uses : [value : {Null}]]

\* static format(parsedItem) on item k of the pool
FormatItem(k) ==
    LET returns == Formatted(itemPool[k])
        after == ParsedItemAfter(itemPool[k])
    IN  /\ Len(formatLog) < MaxFormats
        /\ formatted' = returns
        /\ parsedItem' = after
        /\ itemPool' = [itemPool EXCEPT ![k] = after]
        /\ formatLog' = Append(formatLog, [item |-> k, before |-> itemPool[k],
                                           after |-> after, returns |-> returns])
        /\ UNCHANGED <<rlVars, rtVars, bpVars, askVars, fmVars, cmpVars>>

\* no item has been formatted
FormatIdle ==
    /\ parsedItem = NoItem
    /\ formatted = NotFormatted
    /\ itemPool = <<>>
    /\ formatLog = <<>>

----------------------------------------------------------------------------
(* folderManager.ts *)

MaxCallers == 3
MaxCreations == 3

Callers == 1..MaxCallers
Creations == 1..MaxCreations

\* a caller that is not inside ensureAIImporterFolderExists()
NotCalling == [pc |-> "idle", promise |-> 0, ok |-> FALSE, id |-> 0]

\* what a settled creation promise hands to those awaiting it: the id of the folder
\* or the error of this creation
SettledWith(p) == [ok |-> creation[p] = "resolved", id |-> p]

\* game.folders.find(...).id: the first matching folder
ExistingFolder == CHOOSE f \in folders : \A g \in folders : f <= g

\* the createAIImporterFolder() call this one would be
NextCreation == CHOOSE p \in Creations : creation[p] = "unstarted" /\ \A q \in Creations : creation[q] = "unstarted" => p <= q

\* ensureAIImporterFolderExists() without the test of the cached promise
EnsureAIImporterFolderExistsNoCache(c) ==
    /\ fmCaller[c].pc \in {"idle", "returned"}
    /\ IF folders # {}
       THEN /\ fmCaller' = [fmCaller EXCEPT ![c] = [pc |-> "returned", promise |-> 0, ok |-> TRUE, id |-> ExistingFolder]]
            /\ UNCHANGED <<folderCreationPromise, creation>>
       ELSE /\ \E p \in Creations : creation[p] = "unstarted"
            /\ creation' = [creation EXCEPT ![NextCreation] = "pending"]
            /\ folderCreationPromise' = NextCreation
            /\ fmCaller' = [fmCaller EXCEPT ![c] = [pc |-> "awaiting", promise |-> NextCreation, ok |-> FALSE, id |-> 0]]
    /\ UNCHANGED <<rlVars, rtVars, bpVars, askVars, fmtVars, cmpVars, folders, graceTimers>>

\* ensureAIImporterFolderExists(), up to its return or its await
EnsureAIImporterFolderExists(c) ==
    /\ fmCaller[c].pc \in {"idle", "returned"}
    /\ IF folders # {}
       THEN /\ fmCaller' = [fmCaller EXCEPT ![c] = [pc |-> "returned", promise |-> 0, ok |-> TRUE, id |-> ExistingFolder]]
            /\ UNCHANGED <<folderCreationPromise, creation>>
       ELSE IF folderCreationPromise # 0
       THEN /\ fmCaller' = [fmCaller EXCEPT ![c] = [pc |-> "shared", promise |-> folderCreationPromise, ok |-> FALSE, id |-> 0]]
            /\ UNCHANGED <<folderCreationPromise, creation>>
       ELSE /\ \E p \in Creations : creation[p] = "unstarted"
            /\ creation' = [creation EXCEPT ![NextCreation] = "pending"]
            /\ folderCreationPromise' = NextCreation
            /\ fmCaller' = [fmCaller EXCEPT ![c] = [pc |-> "awaiting", promise |-> NextCreation, ok |-> FALSE, id |-> 0]]
    /\ UNCHANGED <<rlVars, rtVars, bpVars, askVars, fmtVars, cmpVars, folders, graceTimers>>

\* createAIImporterFolder() settles: Folder.create() made the folder, or it threw
\* or returned nothing
CreateAIImporterFolderSettles(p, ok) ==
    /\ creation[p] = "pending"
    /\ creation' = [creation EXCEPT ![p] = IF ok THEN "resolved" ELSE "rejected"]
    /\ folders' = IF ok THEN folders \cup {p} ELSE folders
    /\ UNCHANGED <<rlVars, rtVars, bpVars, askVars, fmtVars, cmpVars, folderCreationPromise, fmCaller, graceTimers>>

\* the caller that started the creation, after its await, with the failed promise
\* left in the cache
AwaitResumesKeepsFailed(c) ==
    LET p == fmCaller[c].promise
    IN  /\ fmCaller[c].pc = "awaiting"
        /\ creation[p] \in {"resolved", "rejected"}
        /\ fmCaller' = [fmCaller EXCEPT ![c] = [pc |-> "returned", promise |-> p] @@ SettledWith(p)]
        /\ graceTimers' = IF creation[p] = "resolved" THEN graceTimers \cup {p} ELSE graceTimers
        /\ UNCHANGED folderCreationPromise
        /\ UNCHANGED <<rlVars, rtVars, bpVars, askVars, fmtVars, cmpVars, folders, creation>>

\* the caller that started the creation, after its await: the try block on
\* success, the catch block on failure
AwaitResumes(c) ==
    LET p == fmCaller[c].promise
    IN  /\ fmCaller[c].pc = "awaiting"
        /\ creation[p] \in {"resolved", "rejected"}
        /\ fmCaller' = [fmCaller EXCEPT ![c] = [pc |-> "returned", promise |-> p] @@ SettledWith(p)]
        /\ IF creation[p] = "resolved"
           THEN graceTimers' = graceTimers \cup {p} /\ UNCHANGED folderCreationPromise
           ELSE folderCreationPromise' = 0 /\ UNCHANGED graceTimers
        /\ UNCHANGED <<rlVars, rtVars, bpVars, askVars, fmtVars, cmpVars, folders, creation>>

\* a caller that returned the cached promise gets what it settled with. The
\* reactions of a promise run in the order they were registered: the await of the
\* caller that started the creation comes first
SharedPromiseSettles(c) ==
    LET p == fmCaller[c].promise
    IN  /\ fmCaller[c].pc = "shared"
        /\ creation[p] \in {"resolved", "rejected"}
        /\ \A a \in Callers : ~(fmCaller[a].pc = "awaiting" /\ fmCaller[a].promise = p)
        /\ fmCaller' = [fmCaller EXCEPT ![c] = [pc |-> "returned", promise |-> p] @@ SettledWith(p)]
        /\ UNCHANGED <<rlVars, rtVars, bpVars, askVars, fmtVars, cmpVars, folders, folderCreationPromise, creation, graceTimers>>

\* the setTimeout(() => { folderCreationPromise = null }, 1000) of a creation fires
GraceTimerFires(p) ==
    /\ p \in graceTimers
    /\ graceTimers' = graceTimers \ {p}
    /\ folderCreationPromise' = 0
    /\ UNCHANGED <<rlVars, rtVars, bpVars, askVars, fmtVars, cmpVars, folders, creation, fmCaller>>

\* a user of the host deletes the folder
DeleteFolder ==
    /\ folders # {}
    /\ folders' = {}
    /\ UNCHANGED <<rlVars, rtVars, bpVars, askVars, fmtVars, cmpVars, folderCreationPromise, creation, fmCaller, graceTimers>>

\* the module as loaded: no folder, no cached promise
FolderIdle ==
    /\ folders = {}
    /\ folderCreationPromise = 0
    /\ creation = [p \in Creations |-> "unstarted"]
    /\ fmCaller = [c \in Callers |-> NotCalling]
    /\ graceTimers = {}

----------------------------------------------------------------------------
(* askLLM: executeWithRetry(() => rateLimiter.execute(() => chain.invoke(...))) *)

\* the rateLimiter.execute() call of the attempt under way, 0 before fn() is called
AttemptRequest ==
    IF Len(attemptRequests) = Len(rtLog) + 1 THEN attemptRequests[Len(attemptRequests)] ELSE 0

\* fn() of a retry calling chain.invoke() itself, past the rate limiter
AttemptSubmitsRetryDirect ==
    /\ rtPc \in {"calling", "direct"}
    /\ AttemptRequest = 0
    /\ \E q \in Requests : rlState[q] = "new"
    /\ attemptRequests' = Append(attemptRequests, NextRequest)
    /\ IF Len(attemptRequests) = 0
       THEN ExecuteCall(NextRequest)
       ELSE /\ rlState' = [rlState EXCEPT ![NextRequest] = "running"]
            /\ UNCHANGED <<now, ticks, rateLimitEnabled, requestQueue, activeRequests, requestTimestamps,
                           timers, dispatchLog, lastWait, rtVars, bpVars, askVars, fmtVars, fmVars>>

\* fn() is called, for the first attempt or for a retry: rateLimiter.execute(...)
AttemptSubmits ==
    /\ rtPc \in {"calling", "direct"}
    /\ AttemptRequest = 0
    /\ ExecuteCall(NextRequest)
    /\ attemptRequests' = Append(attemptRequests, NextRequest)

\* await fn() returns: the promise of rateLimiter.execute() was resolved
AttemptResolves ==
    /\ AttemptRequest # 0
    /\ rlState[AttemptRequest] = "resolved"
    /\ FnResolves

\* await fn() throws: the promise of rateLimiter.execute() was rejected
AttemptRejects(error, rnd) ==
    /\ AttemptRequest # 0
    /\ rlState[AttemptRequest] = "rejected"
    /\ FnRejects(error, rnd)

\* no attempt has been made
AttemptsIdle == attemptRequests = <<>>

----------------------------------------------------------------------------
(* Specifications *)

\* the rate limiter, rate limiting left enabled
InitRateLimiter == InitRL /\ retryEnabled = TRUE /\ maxRetries = MaxRetries /\ RetryIdle /\ BatchIdle /\ AskIdle /\ FormatIdle /\ FolderIdle /\ AttemptsIdle

NextRL ==
    \/ \E r \in Requests : Execute(r)
    \/ ProcessQueueTimer
    \/ \E r \in Requests, ok \in BOOLEAN : Settle(r, ok)
    \/ \E d \in TickSteps : Tick(d)

SpecRL == InitRateLimiter /\ [][NextRL]_vars

\* the rate limiter under the scheduling of the event loop: a due timer callback
\* runs, a dispatched operation settles, and the clock moves on while a timer waits
LiveTickSteps == {20000, 60000}

NextRLLive ==
    \/ \E r \in Requests : Execute(r)
    \/ ProcessQueueTimer
    \/ \E r \in Requests, ok \in BOOLEAN : Settle(r, ok)
    \/ \E d \in LiveTickSteps : TimePasses(d)

SpecRLLive ==
    /\ InitRateLimiter
    /\ [][NextRLLive]_vars
    /\ WF_vars(ProcessQueueTimer)
    /\ WF_vars(\E r \in Requests, ok \in BOOLEAN : Settle(r, ok))
    /\ WF_vars(\E d \in LiveTickSteps : TimePasses(d))

\* the rate limiter, rate limiting switched on and off while it runs
ConfigTickSteps == {1000}

NextRLConfig ==
    \/ \E r \in Requests : Execute(r)
    \/ ProcessQueueTimer
    \/ \E r \in Requests, ok \in BOOLEAN : Settle(r, ok)
    \/ \E r \in Requests, ok \in BOOLEAN : SettleDirect(r, ok)
    \/ \E b \in BOOLEAN : SetRateLimitEnabled(b)
    \/ \E d \in ConfigTickSteps : Tick(d)

SpecRLConfig == InitRateLimiter /\ [][NextRLConfig]_vars

\* one executeWithRetry call
InitRetry == InitRL /\ retryEnabled \in BOOLEAN /\ maxRetries = MaxRetries /\ RetryIdle /\ BatchIdle /\ AskIdle /\ FormatIdle /\ FolderIdle /\ AttemptsIdle

NextRetry ==
    \/ ExecuteWithRetry
    \/ FnResolves
    \/ \E error \in Errors, rnd \in RandomHundredths : FnRejects(error, rnd)
    \/ SleepDone

SpecRetry == InitRetry /\ [][NextRetry]_vars

\* one executeWithRetry call of the handler RetryHandler.forOpenAI() builds, with
\* its five retries; fn fails with a retryable or a non-retryable error
BackoffErrors == {ErrServiceUnavailable, ErrUnauthorized}

InitBackoff ==
    /\ InitRL /\ retryEnabled = TRUE /\ maxRetries = OpenAIMaxRetries
    /\ RetryIdle /\ BatchIdle /\ AskIdle /\ FormatIdle /\ FolderIdle /\ AttemptsIdle

NextBackoff ==
    \/ ExecuteWithRetry
    \/ FnResolves
    \/ \E error \in BackoffErrors, rnd \in RandomHundredths : FnRejects(error, rnd)
    \/ SleepDone

SpecBackoff == InitBackoff /\ [][NextBackoff]_vars

\* the batch processor, its askLLM calls settling as the environment decides
NextBatch ==
    \/ \E r \in BatchRequests, promptText \in Prompts : ProcessRequest(r, promptText)
    \/ \E batchKey \in BatchKeys : BatchTimerFires(batchKey)
    \/ \E f \in BatchRequests, shape \in ResultShapes : FlushCallResolves(f, shape)
    \/ \E f \in BatchRequests, error \in BatchErrors : FlushCallRejects(f, error)
    \/ \E f \in BatchRequests : PacingDone(f)
    \/ \E r \in BatchRequests, error \in BatchErrors \cup {NoError} : DirectCallSettles(r, error)
    \/ \E enabled \in BOOLEAN : SetBatching(enabled)
    \/ \E d \in BatchTickSteps : TickBatch(d)

SpecBatch == InitRateLimiter /\ [][NextBatch]_vars

\* one askLLM call, with the retry policy on or off and the host's notifications
\* there or not; fn is rateLimiter.execute(() => chain.invoke(...))
InitAsk ==
    /\ InitRL /\ retryEnabled \in BOOLEAN /\ maxRetries = MaxRetries /\ RetryIdle /\ BatchIdle
    /\ FormatIdle /\ FolderIdle /\ AttemptsIdle
    /\ askPc = "idle"
    /\ askArgs = [promptText |-> "", outputOptions |-> [overrides |-> NoOverrides, deletions |-> {}]]
    /\ askResult = NoResult
    /\ notificationsReady \in BOOLEAN
    /\ notifications = <<>>
    /\ consoleLog = <<>>

NextAsk ==
    \/ \E promptText \in Prompts, outputOptions \in OutputOptions : AskLLM(promptText, outputOptions)
    \/ FnResolves
    \/ \E error \in AskErrors, rnd \in RandomHundredths : FnRejects(error, rnd)
    \/ SleepDone
    \/ AskReturns
    \/ AskCatches

SpecAsk == InitAsk /\ [][NextAsk]_vars

\* one askLLM call whose completion call fails with an HTTP error of the provider
\* that is neither a quota nor a rate-limit error
StatusError(status) == Err(status, "", "Error", "Request failed")

StatusErrors == {StatusError(status) : status \in {401, 403, 404, 500, 502, 503, 504}}

NextDiagnose ==
    \/ \E promptText \in Prompts, outputOptions \in OutputOptions : AskLLM(promptText, outputOptions)
    \/ FnResolves
    \/ \E error \in StatusErrors, rnd \in RandomHundredths : FnRejects(error, rnd)
    \/ SleepDone
    \/ AskReturns
    \/ AskCatches

SpecDiagnose == InitAsk /\ [][NextDiagnose]_vars

\* one format() call on an item
InitFormat ==
    /\ InitRL /\ retryEnabled = TRUE /\ maxRetries = MaxRetries /\ RetryIdle /\ BatchIdle /\ AskIdle /\ FolderIdle /\ AttemptsIdle
    /\ parsedItem \in ParsedItems
    /\ formatted = NotFormatted
    /\ itemPool = <<>>
    /\ formatLog = <<>>

NextFormat == Format

SpecFormat == InitFormat /\ [][NextFormat]_vars

\* the formatter on the items that differ in their magic
InitMagic ==
    /\ InitRL /\ retryEnabled = TRUE /\ maxRetries = MaxRetries /\ RetryIdle /\ BatchIdle /\ AskIdle /\ FolderIdle /\ AttemptsIdle
    /\ parsedItem \in MagicItems
    /\ formatted = NotFormatted
    /\ itemPool = <<>>
    /\ formatLog = <<>>

NextMagic == Format

SpecMagic == InitMagic /\ [][NextMagic]_vars

\* the formatter on the weapons
InitWeapon ==
    /\ InitRL /\ retryEnabled = TRUE /\ maxRetries = MaxRetries /\ RetryIdle /\ BatchIdle /\ AskIdle /\ FolderIdle /\ AttemptsIdle
    /\ parsedItem \in WeaponItems
    /\ formatted = NotFormatted
    /\ itemPool = <<>>
    /\ formatLog = <<>>

NextWeapon == Format

SpecWeapon == InitWeapon /\ [][NextWeapon]_vars

\* the folder manager
InitFolder ==
    /\ InitRL /\ retryEnabled = TRUE /\ maxRetries = MaxRetries /\ RetryIdle /\ BatchIdle /\ AskIdle /\ FormatIdle
    /\ FolderIdle /\ AttemptsIdle

NextFolder ==
    \/ \E c \in Callers : EnsureAIImporterFolderExists(c)
    \/ \E p \in Creations, ok \in BOOLEAN : CreateAIImporterFolderSettles(p, ok)
    \/ \E c \in Callers : AwaitResumes(c)
    \/ \E c \in Callers : SharedPromiseSettles(c)
    \/ \E p \in Creations : GraceTimerFires(p)
    \/ DeleteFolder

SpecFolder == InitFolder /\ [][NextFolder]_vars

\* one askLLM call, its attempts going through the rate limiter next to the
\* execute() calls of others. The sleeps of the retry handler take no time of the
\* model's clock, which only Tick moves.
LimitedErrors == {ErrServiceUnavailable, ErrUnauthorized}
LimitedTickSteps == {60000}

InitLimited == InitRateLimiter

NextLimited ==
    \/ \E promptText \in {PromptMonster}, outputOptions \in {[overrides |-> NoOverrides, deletions |-> {}]} :
          AskLLM(promptText, outputOptions)
    \/ AttemptSubmits
    \/ \E r \in Requests : Execute(r)
    \/ ProcessQueueTimer
    \/ \E r \in Requests, ok \in BOOLEAN : Settle(r, ok)
    \/ AttemptResolves
    \/ \E error \in LimitedErrors : AttemptRejects(error, 0)
    \/ SleepDone
    \/ AskReturns
    \/ AskCatches
    \/ \E d \in LimitedTickSteps : Tick(d)

SpecLimited == InitLimited /\ [][NextLimited]_vars

\* format() calls on the items of a pool, in any order
InitProject ==
    /\ InitRL /\ retryEnabled = TRUE /\ maxRetries = MaxRetries /\ RetryIdle /\ BatchIdle /\ AskIdle /\ FolderIdle /\ AttemptsIdle
    /\ parsedItem = NoItem
    /\ formatted = NotFormatted
    /\ itemPool \in [1..PoolSize -> PoolItems]
    /\ formatLog = <<>>

NextProject == \E k \in 1..PoolSize : FormatItem(k)

SpecProject == InitProject /\ [][NextProject]_vars

----------------------------------------------------------------------------
\* C1: activeRequests never exceeds maxConcurrent and never drops below zero,
\* whatever the interleaving of execute() calls, timer re-checks and settlements.
C1_ActiveBounded == activeRequests >= 0 /\ activeRequests <= MaxConcurrent

\* the concurrency ceiling is reached with a request waiting behind it, after a settlement
C1_Witness ==
    /\ activeRequests = MaxConcurrent
    /\ Len(requestQueue) > 0
    /\ \E r \in Requests : rlState[r] \in {"resolved", "rejected"}

\* C2: the dispatch timestamps in the trailing second never exceed requestsPerSecond
\* and those in the trailing minute never exceed requestsPerMinute.
C2_WindowCeilings ==
    /\ RequestsInLastSecond(requestTimestamps, now) <= RequestsPerSecond
    /\ RequestsInLastMinute(requestTimestamps, now) <= RequestsPerMinute

\* the per-minute ceiling alone holds back a queued request
C2_Witness ==
    /\ Len(requestQueue) > 0
    /\ activeRequests < MaxConcurrent
    /\ RequestsInLastMinute(requestTimestamps, now) = RequestsPerMinute
    /\ RequestsInLastSecond(requestTimestamps, now) < RequestsPerSecond

\* the invocations of fn made so far
Invocations == Len(rtLog) + (IF rtPc \in {"calling", "direct"} THEN 1 ELSE 0)

AllAttemptsRetryable == \A i \in 1..Len(rtLog) : ~rtLog[i].ok /\ IsRetryableError(rtLog[i].error)

\* C3: with the retry policy enabled executeWithRetry invokes the operation at most
\* maxRetries + 1 times, and when every attempt failed with a retryable error it
\* rejects with the error of the last attempt.
C3_RetryBound ==
    retryEnabled =>
        /\ Invocations <= maxRetries + 1
        /\ (rtPc = "thrown" /\ AllAttemptsRetryable
              => /\ ~rtOutcome.ok
                 /\ rtOutcome.error = rtLog[Len(rtLog)].error)

\* the retries are exhausted by retryable errors, the last one unlike the first
C3_Witness ==
    /\ retryEnabled
    /\ rtPc = "thrown"
    /\ Len(rtLog) = maxRetries + 1
    /\ AllAttemptsRetryable
    /\ rtLog[1].error # rtLog[Len(rtLog)].error

\* C4: executeWithRetry ends at the first decisive event. A successful attempt is
\* the last invocation and its result is what is returned; a non-retryable error
\* is the last invocation, is what is thrown, and no backoff sleep follows it.
C4_TerminalOnDecisive ==
    retryEnabled =>
        \A i \in 1..Len(rtLog) :
            /\ rtLog[i].ok =>
                 /\ i = Len(rtLog)
                 /\ rtPc = "returned"
                 /\ rtOutcome = [ok |-> TRUE, value |-> ResultOf(i), error |-> NoError]
                 /\ Len(rtSleeps) = i - 1
            /\ (~rtLog[i].ok /\ ~IsRetryableError(rtLog[i].error)) =>
                 /\ i = Len(rtLog)
                 /\ rtPc = "thrown"
                 /\ rtOutcome = [ok |-> FALSE, value |-> 0, error |-> rtLog[i].error]
                 /\ Len(rtSleeps) = i - 1

\* a retry ran into a non-retryable error
C4_Witness ==
    /\ retryEnabled
    /\ Len(rtLog) = 2
    /\ ~rtLog[2].ok
    /\ ~IsRetryableError(rtLog[2].error)
    /\ rtPc = "thrown"

\* the claim's classification, its "rate-limit or quota phrasing" taken at its widest:
\* in the message or the name, in any letter case, "429" included
ClaimedRetryable(error) ==
    \/ error.status \in {429, 500, 502, 503, 504}
    \/ \E text \in {ToLowerCase(error.message), ToLowerCase(error.name)} :
          \/ Includes(text, "rate limit") \/ Includes(text, "ratelimit")
          \/ Includes(text, "quota") \/ Includes(text, "429")
    \/ error.code \in {"ECONNRESET", "ETIMEDOUT"}

\* C5: an error is retried if and only if its status is one of 429, 500, 502, 503,
\* 504, or its message mentions rate-limit or quota phrasing, or it is a network
\* timeout or connection reset; every other error is surfaced without a retry.
C5_RetryableClassification ==
    retryEnabled =>
        \A i \in 1..Len(rtLog) :
            (~rtLog[i].ok /\ i <= maxRetries) =>
                ((i < Len(rtLog) \/ rtPc = "sleeping") <=> ClaimedRetryable(rtLog[i].error))

\* the calls of flush f made for the member at position i (0: the combined call)
CallsFor(f, i) == {c \in 1..Len(askLog) : askLog[c].flush = f /\ askLog[c].member = i}

\* flush f made a combined call and it resolved with an array of exactly one
\* element per member
CombinedExact(f) ==
    \E c \in CallsFor(f, 0) :
        /\ askLog[c].outcome.state = "resolved"
        /\ askLog[c].outcome.value.isArray
        /\ Len(askLog[c].outcome.value.elems) = Len(flushes[f].members)

\* flush f made a combined call and it resolved with something else
CombinedMismatch(f) ==
    \E c \in CallsFor(f, 0) :
        /\ askLog[c].outcome.state = "resolved"
        /\ ~(/\ askLog[c].outcome.value.isArray
             /\ Len(askLog[c].outcome.value.elems) = Len(flushes[f].members))

\* C6: when the combined call of a batch of N >= 2 requests returns an array of
\* exactly N results, the i-th result resolves the promise of the i-th queued
\* request, for every i.
C6_BatchDistribution ==
    \A f \in 1..Len(flushes) :
        CombinedExact(f) =>
            \A c \in CallsFor(f, 0) : \A i \in 1..Len(flushes[f].members) :
                bpPromise[flushes[f].members[i]] = Resolved(askLog[c].outcome.value.elems[i])

\* a combined call has returned one result per member
C6_Witness ==
    \E f \in 1..Len(flushes) : CombinedExact(f) /\ Len(flushes[f].members) >= 2

\* C7: when the combined call returns a value that is not an array of exactly N
\* elements no member is rejected for it: the members are executed one at a time
\* in queue order, each by a call with its own arguments, and each is settled
\* with the outcome of its own call.
C7_SequentialFallback ==
    \A f \in 1..Len(flushes) :
        CombinedMismatch(f) =>
            /\ Cardinality({c \in 1..Len(askLog) :
                   askLog[c].flush = f /\ askLog[c].outcome.state = "pending"}) <= 1
            /\ flushes[f].phase = "done" =>
                   \A i \in 1..Len(flushes[f].members) : CallsFor(f, i) # {}
            /\ \A i \in 1..Len(flushes[f].members) :
                 LET r == flushes[f].members[i] IN
                 /\ Cardinality(CallsFor(f, i)) <= 1
                 /\ CallsFor(f, i) = {} => bpPromise[r] = Unsettled
                 /\ \A c \in CallsFor(f, i) :
                      /\ askLog[c] = [OwnCall(bpRequest, f, i, r) EXCEPT !.outcome = askLog[c].outcome]
                      /\ bpPromise[r] = askLog[c].outcome
                      /\ \A j \in 1..(i - 1) : \E b \in CallsFor(f, j) :
                            b < c /\ askLog[b].outcome.state # "pending"

\* after a mismatch every member has been served by its own call, one resolved
\* and one rejected
C7_Witness ==
    \E f \in 1..Len(flushes) :
        /\ CombinedMismatch(f)
        /\ flushes[f].phase = "done"
        /\ \E i, j \in 1..Len(flushes[f].members) :
              /\ bpPromise[flushes[f].members[i]].state = "resolved"
              /\ bpPromise[flushes[f].members[j]].state = "rejected"

\* C8: a pending batch is flushed when its size reaches maxBatchSize or when
\* batchTimeoutMs has passed since its first member was queued. A pending batch is
\* below maxBatchSize and its timer is due batchTimeoutMs after its first member
\* was queued, whatever members came later; a key without a pending batch has no
\* timer; no batch is flushed before it is full or its time is up, unless
\* batching is switched off.
C8_FlushBySizeOrTimeout ==
    /\ \A k \in BatchKeys :
          /\ Len(queuedAt[k]) = Len(pendingRequests[k])
          /\ IF pendingRequests[k] = <<>>
             THEN batchTimers[k] = NoTimer
             ELSE /\ Len(pendingRequests[k]) < MaxBatchSize
                  /\ batchTimers[k] = queuedAt[k][1] + BatchTimeoutMs
    /\ \A f \in 1..Len(flushes) :
          CASE flushes[f].cause = "size" -> Len(flushes[f].members) = MaxBatchSize
            [] flushes[f].cause = "timer" ->
                 Len(flushes[f].members) < MaxBatchSize /\ flushes[f].elapsed
            [] OTHER -> TRUE

\* after a batch of the key was flushed by its timer, a new batch is pending whose
\* second member came later than its first
C8_Witness ==
    \E k \in BatchKeys :
        /\ \E f \in 1..Len(flushes) : flushes[f].key = k /\ flushes[f].cause = "timer"
        /\ Len(pendingRequests[k]) >= 2
        /\ queuedAt[k][2] > queuedAt[k][1]

\* the prompt starts with one of the batchable prompt prefixes
MatchesBatchablePrefix(promptText) ==
    \E prefix \in {"Parse the provided item text into",
                   "Extract the item name and description",
                   "Parse the following item data"} : StartsWith(promptText, prefix)

\* C9: a request made with batching disabled, or with a prompt that is not
\* batchable, is never queued: it is served by exactly one askLLM call with the
\* caller's own prompt, output schema, inputs and output options, and gets that
\* call's outcome.
C9_DirectCallOwnArguments ==
    \A r \in BatchRequests :
        LET direct == {c \in 1..Len(askLog) : askLog[c].flush = 0 /\ askLog[c].member = r} IN
        /\ (bpRequest[r] # NoArgs /\ ~MatchesBatchablePrefix(bpRequest[r].promptText)) => direct # {}
        /\ direct # {} =>
             /\ Cardinality(direct) = 1
             /\ \A k \in BatchKeys : \A i \in 1..Len(pendingRequests[k]) : pendingRequests[k][i] # r
             /\ \A f \in 1..Len(flushes) : \A i \in 1..Len(flushes[f].members) : flushes[f].members[i] # r
             /\ \A c \in direct :
                  /\ askLog[c].promptText = bpRequest[r].promptText
                  /\ askLog[c].outputSchema = bpRequest[r].outputSchema
                  /\ askLog[c].inputOptions = bpRequest[r].inputOptions
                  /\ askLog[c].outputOptions = bpRequest[r].outputOptions
                  /\ bpPromise[r] = askLog[c].outcome

\* C10: when the rate-limited, retried completion inside askLLM fails, askLLM
\* rejects with that same error, and by then the diagnosis of that error has
\* been shown and the rate limiter's status logged.
C10_OriginalErrorRethrown ==
    askPc = "thrown" =>
        /\ askResult = [ok |-> FALSE, value |-> <<>>, error |-> rtOutcome.error]
        /\ \E n \in 1..Len(notifications) :
              notifications[n].technicalMessage = ErrorMessage(rtOutcome.error)
        /\ \E i, j \in 1..Len(consoleLog) :
              i < j /\ consoleLog[i].level = "error" /\ consoleLog[j].level = "log"

\* C11: no terminal failure is silent. When askLLM rejects, one permanent error
\* notification for the failure has been shown; none is shown before the failure
\* is final, whatever the number of failed attempts.
C11_FailureNotified ==
    IF askPc = "thrown"
    THEN /\ Len(notifications) = 1
         /\ notifications[1].permanent
         /\ notifications[1].technicalMessage = ErrorMessage(rtOutcome.error)
    ELSE notifications = <<>>

\* C12: a completion that fails validation against the output schema is
\* terminal: it is the last invocation of the completion call of that askLLM,
\* no backoff sleep follows it, and it is the error the caller gets.
C12_ParseFailureTerminal ==
    \A i \in 1..Len(rtLog) :
        (~rtLog[i].ok /\ rtLog[i].error.name = "OutputParserException") =>
            /\ i = Len(rtLog)
            /\ Len(rtSleeps) = i - 1
            /\ rtPc = "thrown"
            /\ rtOutcome.error = rtLog[i].error
            /\ askPc = "thrown" /\ notificationsReady => askResult.error = rtLog[i].error

\* C13: analyzeError assigns one category by first match: quota, then rate limit,
\* then HTTP status >= 400, then unknown. An error with both the quota and the
\* rate-limit signature is reported as quota, and the two flags are never both set.
C13_CategoryPrecedence ==
    (askPc = "thrown" /\ notificationsReady) =>
        LET error == rtOutcome.error
            info  == consoleLog[1].errorInfo
            quota == IsQuotaExceededError(error)
            rate  == ~quota /\ IsRateLimitError(error)
            http  == ~quota /\ ~rate /\ error.status >= 400
        IN  /\ ~(info.isQuotaError /\ info.isRateLimitError)
            /\ info.isQuotaError = quota
            /\ info.isRateLimitError = rate
            /\ StartsWith(info.userMessage, "OpenAI API quota exceeded") = quota
            /\ StartsWith(info.userMessage, "API rate limit exceeded") = rate
            /\ StartsWith(info.userMessage, "OpenAI API error (") = http
            /\ (info.userMessage = "An unexpected error occurred while communicating with OpenAI.")
                  = (~quota /\ ~rate /\ ~http)

\* an error with both signatures has been diagnosed, as a quota error
C13_Witness ==
    /\ askPc = "thrown"
    /\ notificationsReady
    /\ IsQuotaExceededError(rtOutcome.error)
    /\ IsRateLimitError(rtOutcome.error)
    /\ consoleLog[1].errorInfo.isQuotaError
    /\ notifications[1].title = "OpenAI Quota Exceeded"

\* the type the item is to be projected to
ClaimedType(item) ==
    IF item.itemType # ""
    THEN IF item.itemType = "weapon" THEN "weapon"
         ELSE IF item.itemType = "consumable" THEN "feat"
         ELSE IF item.itemType = "spell" THEN "spell"
         ELSE "equipment"
    ELSE IF item.actionType = "meleeWeaponAttack" \/ item.actionType = "rangedWeaponAttack"
         THEN "weapon" ELSE "feat"

\* C19: the projected type is a function of the item: by itemType where present
\* (weapon; equipment for equipment, tool, loot, backpack and any other value;
\* feat for consumable; spell), else weapon for the two weapon attack action
\* types and feat otherwise; always one of weapon, equipment, feat, spell.
C19_TypeProjection ==
    formatted # NotFormatted =>
        /\ formatted.type = ClaimedType(parsedItem)
        /\ formatted.type \in {"weapon", "equipment", "feat", "spell"}

\* an item without itemType has been projected to weapon by its actionType
C19_Witness ==
    /\ formatted # NotFormatted
    /\ parsedItem.itemType = ""
    /\ parsedItem.actionType = "rangedWeaponAttack"
    /\ formatted.type = "weapon"

\* C20: a weapon has the Attack activity; the Save activity iff it has a save
\* ability and a save DC (a DC of null or 0 is none); the Utility activity iff
\* uses.value > 0. Any other type has no activities.
C20_ActivitiesOfWeapon ==
    formatted # NotFormatted =>
        IF formatted.type = "weapon"
        THEN LET activities == formatted.system.activities IN
             /\ "dnd5eactivity000" \in DOMAIN activities
             /\ activities["dnd5eactivity000"].type = "attack"
             /\ ("dnd5eactivity100" \in DOMAIN activities)
                   = (parsedItem.save.ability # "" /\ parsedItem.save.dc \notin {Null, Num(0)})
             /\ ("dnd5eactivity300" \in DOMAIN activities)
                   = (parsedItem.uses.value # Null /\ parsedItem.uses.value[1] > 0)
             /\ DOMAIN activities \subseteq {"dnd5eactivity000", "dnd5eactivity100", "dnd5eactivity300"}
        ELSE "activities" \notin DOMAIN formatted.system

\* a weapon with a save ability but no DC, and with uses, has been formatted
C20_Witness ==
    /\ formatted.type = "weapon"
    /\ parsedItem.save.ability # ""
    /\ parsedItem.save.dc = Null
    /\ parsedItem.uses.value = Num(3)
    /\ DOMAIN formatted.system.activities = {"dnd5eactivity000", "dnd5eactivity300"}

\* C14: with rate limiting enabled requests are dispatched in the order they were
\* submitted in, and none is dispatched while an earlier one waits in the queue.
\* (Requests are numbered in submission order.) Completion order is free.
C14_FifoDispatch ==
    /\ \A i, j \in 1..Len(dispatchLog) : i < j => dispatchLog[i] < dispatchLog[j]
    /\ \A q, r \in Requests :
          (q < r /\ rlState[q] = "queued") => rlState[r] \in {"new", "queued"}
    /\ \A i, j \in 1..Len(requestQueue) : i < j => requestQueue[i] < requestQueue[j]

\* a later request has completed while an earlier one still runs and a third waits
C14_Witness ==
    /\ \E q, r \in Requests :
          q < r /\ rlState[q] = "running" /\ rlState[r] \in {"resolved", "rejected"}
    /\ Len(requestQueue) > 0
    /\ Len(dispatchLog) >= 2

\* C15: with rate limiting disabled at the time of the call, execute runs the
\* operation at once and hands back its outcome, whatever the queue and the
\* windows hold, and leaves the limiter as it was: no queue entry, no timestamp,
\* no timer, activeRequests unchanged.
C15_DisabledPassthrough ==
    [][\A r \in Requests :
          /\ (~rateLimitEnabled /\ rlState[r] = "new" /\ rlState'[r] # "new") =>
                /\ rlState'[r] = "direct"
                /\ UNCHANGED <<requestQueue, activeRequests, requestTimestamps, timers, dispatchLog>>
          /\ (rlState[r] = "direct" /\ rlState'[r] # "direct") =>
                /\ rlState'[r] \in {"resolved", "rejected"}
                /\ UNCHANGED <<requestQueue, activeRequests, requestTimestamps, timers, dispatchLog>>
          /\ rlState'[r] = "direct" =>
                \A i \in 1..Len(requestQueue') : requestQueue'[i] # r]_vars

\* an operation runs unlimited while the concurrency ceiling is reached and
\* requests wait in the queue
C15_Witness ==
    /\ \E r \in Requests : rlState[r] = "direct"
    /\ activeRequests = MaxConcurrent
    /\ Len(requestQueue) > 0
    /\ ~rateLimitEnabled

\* initialDelay * backoffMultiplier^attempt, and the same clamped to maxDelay
ExponentialDelay(a) == (InitialDelay * Pow(BackoffNumerator, a)) \div Pow(BackoffDenominator, a)

ClampedDelay(a) == IF ExponentialDelay(a) > MaxDelay THEN MaxDelay ELSE ExponentialDelay(a)

\* C16: the sleep before retry attempt+1 is initialDelay * backoffMultiplier^attempt
\* clamped to maxDelay plus a jitter of 0 to 10% of the delay: never below the
\* clamped exponential value, never more than 10% of the delay above it.
C16_BackoffDelay ==
    \A i \in 1..Len(rtSleeps) :
        /\ rtSleeps[i] >= ClampedDelay(i - 1)
        /\ rtSleeps[i] <= ClampedDelay(i - 1) + ExponentialDelay(i - 1) \div 10

\* a sleep with jitter above the exponential value, and a later one at the clamp
C16_Witness ==
    /\ Len(rtSleeps) >= 5
    /\ rtSleeps[1] > ExponentialDelay(0)
    /\ ExponentialDelay(4) > MaxDelay
    /\ rtSleeps[5] = MaxDelay

RECURSIVE SumSeq(_)
SumSeq(q) == IF q = <<>> THEN 0 ELSE Head(q) + SumSeq(Tail(q))

\* C17: one executeWithRetry call sleeps at most maxRetries times, never longer
\* than maxDelay at a time, so for at most maxRetries * maxDelay in all.
C17_TotalBackoffBound ==
    /\ Len(rtSleeps) <= maxRetries
    /\ \A i \in 1..Len(rtSleeps) : rtSleeps[i] <= MaxDelay
    /\ SumSeq(rtSleeps) <= maxRetries * MaxDelay

\* the retries are exhausted, the last sleep being one of maxDelay
C17_Witness ==
    /\ rtPc = "thrown"
    /\ Len(rtSleeps) = maxRetries
    /\ rtSleeps[maxRetries] = MaxDelay
    /\ Len(rtLog) = maxRetries + 1

\* C18: setBatching(false) flushes every pending batch at once. When it returns
\* no request is pending and no batch timer is armed, every request that was
\* pending is a member of a flushed batch, and while batching stays off no
\* processRequest call queues anything.
C18_DisableFlushesAll ==
    [][/\ ~enableBatching' =>
            \A k \in BatchKeys : pendingRequests'[k] = <<>> /\ batchTimers'[k] = NoTimer
       /\ (enableBatching /\ ~enableBatching') =>
            \A k \in BatchKeys : \A i \in 1..Len(pendingRequests[k]) :
                \E f \in (Len(flushes) + 1)..Len(flushes') :
                    /\ flushes'[f].key = k
                    /\ flushes'[f].members = pendingRequests[k]
                    /\ flushes'[f].cause = "disabled"
                    /\ \E c \in (Len(askLog) + 1)..Len(askLog') : askLog'[c].flush = f
       /\ (~enableBatching /\ ~enableBatching') => Len(flushes') = Len(flushes)]_vars

\* batching was switched off with batches pending under two keys, and a request
\* made afterwards went straight to askLLM
C18_Witness ==
    /\ ~enableBatching
    /\ \E f, g \in 1..Len(flushes) :
          /\ f # g
          /\ flushes[f].cause = "disabled"
          /\ flushes[g].cause = "disabled"
          /\ flushes[f].key # flushes[g].key
    /\ \E c \in 1..Len(askLog) :
          /\ askLog[c].flush = 0
          /\ IsBatchable(askLog[c].promptText)

\* the damage parts of the Attack activity of the formatted weapon
AttackDamageParts == formatted.system.activities["dnd5eactivity000"].damage.parts

\* the item is a weapon by its itemType and has a magical bonus above 0
MagicalWeapon(item) ==
    item.itemType = "weapon" /\ item.magicalBonus # Null /\ item.magicalBonus[1] > 0

\* the magical bonus is in the bonus of the first of the parts, as '@mod + N' or
\* as N, and in the bonus of no other
BonusExactlyOnce(parts, n) ==
    /\ Len(parts) >= 1
    /\ parts[1].bonus \in {"@mod + " \o ToString(n), ToString(n)}
    /\ Cardinality({i \in 1..Len(parts) : Includes(parts[i].bonus, ToString(n))}) = 1

\* C21 as stated: for every item with itemType weapon and magicalBonus > 0 the
\* damage parts of the Attack activity carry the magical bonus exactly once, in
\* the bonus of the first part and in no later one.
C21_AsStated ==
    (formatted # NotFormatted /\ MagicalWeapon(parsedItem)) =>
        BonusExactlyOnce(AttackDamageParts, parsedItem.magicalBonus[1])

\* C21: for every item with itemType weapon, magicalBonus > 0 and at least one
\* damage part, the damage parts of the Attack activity carry the magical bonus
\* exactly once: in the bonus of the first part (as '@mod + N' or as N) and in
\* the bonus of no later part.
C21_BonusOnFirstPart ==
    (formatted # NotFormatted /\ MagicalWeapon(parsedItem) /\ Len(parsedItem.damage.parts) >= 1) =>
        BonusExactlyOnce(AttackDamageParts, parsedItem.magicalBonus[1])

\* a magical weapon whose two damage parts both add the modifier has been formatted
C21_Witness ==
    /\ formatted # NotFormatted
    /\ MagicalWeapon(parsedItem)
    /\ Len(parsedItem.damage.parts) = 2
    /\ Includes(parsedItem.damage.parts[2][1], "@mod")
    /\ AttackDamageParts[1].bonus = "@mod + 2"
    /\ AttackDamageParts[2].bonus = "@mod"

SaveActivity == formatted.system.activities["dnd5eactivity100"]

\* the item was formatted as a weapon and has a save ability and a save DC
WeaponWithSave ==
    /\ formatted # NotFormatted
    /\ formatted.type = "weapon"
    /\ parsedItem.save.ability # ""
    /\ parsedItem.save.dc \notin {Null, Num(0)}

\* C30: for a weapon with a save ability and DC the damage parts of the Attack
\* activity are one per element of damage.parts, in the same order; those of the
\* Save activity are the elements from index 1 onward, in order (none when there
\* is one element only), each with an empty bonus and the dice of its element;
\* the Save activity has onSave = 'half'.
C30_SaveDamageParts ==
    WeaponWithSave =>
        LET parts == parsedItem.damage.parts
            saveParts == SaveActivity.damage.parts
        IN  /\ Len(AttackDamageParts) = Len(parts)
            /\ \A i \in 1..Len(parts) : AttackDamageParts[i].types = <<parts[i][2]>>
            /\ Len(saveParts) = (IF Len(parts) >= 1 THEN Len(parts) - 1 ELSE 0)
            /\ \A i \in 1..Len(saveParts) :
                  /\ saveParts[i].types = <<parts[i + 1][2]>>
                  /\ saveParts[i].bonus = ""
                  /\ AttackDamageParts[i + 1].number # Null =>
                        /\ saveParts[i].number = AttackDamageParts[i + 1].number
                        /\ saveParts[i].denomination = AttackDamageParts[i + 1].denomination
            /\ SaveActivity.damage.onSave = "half"

\* a weapon with a save and three damage parts, the second without dice, has been
\* formatted
C30_Witness ==
    /\ WeaponWithSave
    /\ Len(parsedItem.damage.parts) = 3
    /\ Len(AttackDamageParts) = 3
    /\ AttackDamageParts[2].number = Null
    /\ Len(SaveActivity.damage.parts) = 2
    /\ SaveActivity.damage.parts[1].types = <<"poison">>
    /\ SaveActivity.damage.parts[2].number = Num(12)
    /\ SaveActivity.damage.parts[2].denomination = Num(4)

\* C23: in what a successful askLLM returns every key of overrides that is not
\* also deleted holds the override value, no key of deletions is present (a key
\* named in both is absent: the deletions come after the overrides), and every
\* other field is as the parser validated it.
C23_OverridesThenDeletions ==
    askPc = "returned" =>
        LET output == askResult.value
            overrides == askArgs.outputOptions.overrides
            deletions == askArgs.outputOptions.deletions
            validated == ParsedOutput(rtOutcome.value)
        IN  /\ askResult.ok
            /\ DOMAIN output = (DOMAIN validated \cup DOMAIN overrides) \ deletions
            /\ \A field \in DOMAIN overrides \ deletions : output[field] = overrides[field]
            /\ \A field \in deletions : field \notin DOMAIN output
            /\ \A field \in DOMAIN validated \ (DOMAIN overrides \cup deletions) :
                  output[field] = validated[field]

\* askLLM returned with one field overridden and another both overridden and deleted
C23_Witness ==
    /\ askPc = "returned"
    /\ askArgs.outputOptions.overrides = [name |-> "Bite", type |-> "weapon"]
    /\ askArgs.outputOptions.deletions = {"type"}
    /\ askResult.value.name = "Bite"
    /\ "type" \notin DOMAIN askResult.value
    /\ askResult.value.img = "icon.svg"

\* the remediation hints of the claim
TransientHint == "This is a temporary OpenAI service issue. Please try again in a few minutes."
CredentialHint == "Check your OpenAI API key in the module settings."
PermissionHint == "Verify your API key has the necessary permissions for GPT models."
ModelHint == "The requested model may not be available with your API key."

\* C24: an error that is neither a quota nor a rate-limit error is diagnosed as
\* generic; with any 5xx status its remediation is the transient-provider-issue
\* hint, with 401 the check-credential hint, with 403 the permission hint and
\* with 404 the model-unavailable hint.
C24_StatusRemediation ==
    (askPc = "thrown" /\ notificationsReady) =>
        LET error == rtOutcome.error
            errorInfo == consoleLog[1].errorInfo
        IN  (~IsQuotaExceededError(error) /\ ~IsRateLimitError(error) /\ error.status >= 400) =>
              /\ ~errorInfo.isQuotaError
              /\ ~errorInfo.isRateLimitError
              /\ error.status \in 500..599 => errorInfo.suggestedAction = TransientHint
              /\ error.status = 401 => errorInfo.suggestedAction = CredentialHint
              /\ error.status = 403 => errorInfo.suggestedAction = PermissionHint
              /\ error.status = 404 => errorInfo.suggestedAction = ModelHint

\* C28: displayError never throws. Whatever the diagnosis and whether or not the
\* notification surface is there, the catch block of askLLM gets past it: the
\* rate limiter's status is logged and askLLM rejects with the error of the
\* completion, not with one raised by displayError.
C28_DisplayErrorReturns ==
    askPc = "thrown" =>
        /\ askResult.error # ErrNotifications
        /\ \E j \in 1..Len(consoleLog) : consoleLog[j].level = "log"
        /\ ~askResult.ok /\ askResult.error = rtOutcome.error

\* C29: local recovery is for retryable errors only. When the combined call of a
\* batch fails with an error the retry classification deems non-retryable, the
\* sequential fallback makes no further call for the members of the batch, and
\* each member's promise is rejected with that error.
C29_NoRecoveryForNonRetryable ==
    \A f \in 1..Len(flushes) : \A c \in CallsFor(f, 0) :
        (askLog[c].outcome.state = "rejected" /\ ~IsRetryableError(askLog[c].outcome.error)) =>
            \A i \in 1..Len(flushes[f].members) :
                /\ CallsFor(f, i) = {}
                /\ bpPromise[flushes[f].members[i]] = Rejected(askLog[c].outcome.error)

\* the entries of the timestamp list that are not older than 60 seconds
FreshTimestamps == {i \in 1..Len(requestTimestamps) : requestTimestamps[i] > now - OneMinute}

\* C27: the timestamp list does not grow without bound. A step that changes the
\* list leaves no entry older than 60 seconds in it, a timestamp is pushed only
\* where fewer than requestsPerMinute entries remained after that, and the list
\* never holds more than requestsPerMinute entries.
C27_TimestampsBounded ==
    [][/\ Len(requestTimestamps') <= RequestsPerMinute
       /\ requestTimestamps' # requestTimestamps =>
             /\ \A i \in 1..Len(requestTimestamps') : requestTimestamps'[i] > now - OneMinute
             /\ Len(requestTimestamps') > Cardinality(FreshTimestamps) =>
                   /\ Cardinality(FreshTimestamps) < RequestsPerMinute
                   /\ Len(requestTimestamps') = Cardinality(FreshTimestamps) + 1]_vars

\* the list is full although more requests than it holds have been dispatched:
\* entries older than 60 seconds were removed
C27_Witness ==
    /\ Len(requestTimestamps) = RequestsPerMinute
    /\ Len(dispatchLog) > RequestsPerMinute

\* a re-check delay recorded for a blocking ceiling lies between 100 ms and 1000 ms
RecheckDelayInRange ==
    \A factor \in {"second", "minute"} :
        lastWait[factor] # 0 => (lastWait[factor] >= 100 /\ lastWait[factor] <= 1000)

\* C26 as stated: when a queued request is inadmissible, the delay before the
\* next admission re-check is shorter when the per-second ceiling blocks than
\* when only the per-minute ceiling blocks, and it lies between 100 ms and 1000 ms.
C26_AsStated ==
    /\ RecheckDelayInRange
    /\ (lastWait["second"] # 0 /\ lastWait["minute"] # 0) =>
           lastWait["second"] < lastWait["minute"]

\* C26: when a queued request is inadmissible, the delay before the next
\* admission re-check is longer when the per-second ceiling blocks (1000 ms)
\* than when only the per-minute ceiling blocks (200 ms), and it lies between
\* 100 ms and 1000 ms.
C26_LongerOnPerSecond ==
    /\ RecheckDelayInRange
    /\ lastWait["second"] \in {0, PerSecondWait}
    /\ lastWait["minute"] \in {0, DefaultWait}
    /\ (lastWait["second"] # 0 /\ lastWait["minute"] # 0) =>
           lastWait["second"] > lastWait["minute"]

\* a re-check has been scheduled for a request blocked by the per-second ceiling
\* and one for a request blocked by the per-minute ceiling alone
C26_Witness ==
    /\ lastWait["second"] = 1000
    /\ lastWait["minute"] = 200
\* the promise of the request has been settled
Settled(r) == rlState[r] \in {"resolved", "rejected"}

\* the queue holds a request only while an operation is in flight or a re-check
\* is scheduled
QueueNeverStranded ==
    Len(requestQueue) > 0 => (activeRequests > 0 \/ Len(timers) > 0)

\* a promise is settled by the settling of its own dispatched operation, and
\* once settled it keeps its outcome
SettledOnceByOwnOperation ==
    \A r \in Requests :
        /\ (Settled(r) => rlState'[r] = rlState[r])
        /\ (~Settled(r) /\ Settled(r)') => rlState[r] = "running"

\* C25: with rate limiting enabled, where every dispatched operation settles and
\* every timer fires, every request submitted to execute is eventually dispatched
\* and its promise settled exactly once, by the settling of its own operation; the
\* queue never holds a request while nothing is in flight and no re-check is
\* scheduled.
C25_EveryRequestSettles ==
    /\ []QueueNeverStranded
    /\ [][SettledOnceByOwnOperation]_vars
    /\ \A r \in Requests :
          (rlState[r] \in {"queued", "running"}) ~> Settled(r)

\* every request has been dispatched and settled, failures among them, after
\* re-checks for the per-second and for the per-minute ceiling
C25_Witness ==
    /\ \A r \in Requests : Settled(r)
    /\ \E r \in Requests : rlState[r] = "rejected"
    /\ Len(dispatchLog) = MaxRequests
    /\ lastWait["second"] # 0
    /\ lastWait["minute"] # 0
\* how many of the properties are the code 'mgc'
CountMgc(properties) == Cardinality({i \in 1..Len(properties) : properties[i] = "mgc"})

\* the item is magical: a magical bonus above 0, a rarity above common, a required
\* attunement or a magic keyword in the lowercased description
DetectedMagical(item) ==
    \/ (item.magicalBonus # Null /\ item.magicalBonus[1] > 0)
    \/ item.rarity \in {"uncommon", "rare", "veryRare", "legendary", "artifact"}
    \/ item.attunement = "required"
    \/ \E keyword \in {"magic", "magical", "spell", "enchant", "bonus to attack", "bonus to damage"} :
          Includes(ToLowerCase(item.description), keyword)

\* the projection appended nothing to the mapped properties of the item
NothingAppended(item) ==
    Len(formatted.system.properties) = Len(item.properties)

NameContains(item, words) == \E w \in words : Includes(ToLowerCase(item.name), w)

\* the weapon has no explicit weaponType and its subtype is no recognised category
CategoryInferredFromName(item) ==
    /\ item.weaponType = ""
    /\ Trim(ToLowerCase(item.itemSubtype)) \notin
          {"simple melee", "simple ranged", "martial melee", "martial ranged", "natural", "improvised"}

\* C32: for a weapon without explicit weaponType and without a recognised
\* subtype category the weapon category is simpleR or martialR whenever the
\* lowercased name contains bow, crossbow, sling, blowgun or dart, and martialM
\* when the name matches no keyword; an explicit weaponType is kept as it is.
C32_WeaponCategory ==
    (formatted # NotFormatted /\ formatted.type = "weapon") =>
        /\ (CategoryInferredFromName(parsedItem)
             /\ NameContains(parsedItem, {"bow", "crossbow", "sling", "blowgun", "dart"}))
              => formatted.system.type.value \in {"simpleR", "martialR"}
        /\ (CategoryInferredFromName(parsedItem)
             /\ ~NameContains(parsedItem, SimpleWeaponNames \cup MartialMeleeNames \cup MartialRangedNames
                                           \cup {"bow", "crossbow", "sling", "blowgun", "dart"}))
              => formatted.system.type.value = "martialM"
        /\ parsedItem.weaponType # "" => formatted.system.type.value = parsedItem.weaponType
\* the creations in flight
InFlight == {p \in Creations : creation[p] = "pending"}

\* at most one creation is in flight, started by one caller and held in the
\* cache; those that got the same promise got the same folder id or the same
\* failure; there is at most one folder
OneCreationInFlight ==
    /\ Cardinality(InFlight) <= 1
    /\ \A p \in InFlight :
          /\ folderCreationPromise = p
          /\ Cardinality({c \in Callers : fmCaller[c].pc = "awaiting" /\ fmCaller[c].promise = p}) = 1
    /\ \A c, d \in Callers :
          (fmCaller[c].pc = "returned" /\ fmCaller[d].pc = "returned"
           /\ fmCaller[c].promise # 0 /\ fmCaller[c].promise = fmCaller[d].promise)
            => (fmCaller[c].ok = fmCaller[d].ok /\ fmCaller[c].id = fmCaller[d].id)
    /\ Cardinality(folders) <= 1

\* a caller arriving while a creation is in flight starts none and awaits the
\* promise of the one in flight
ArrivalsShareTheCreation ==
    \A c \in Callers :
        (fmCaller[c].pc \in {"idle", "returned"} /\ fmCaller'[c] # fmCaller[c] /\ InFlight # {})
            => /\ creation' = creation
               /\ fmCaller'[c].pc = "shared"
               /\ fmCaller'[c].promise \in InFlight

\* C33: for any interleaving of ensureAIImporterFolderExists calls made while the
\* folder does not exist, at most one folder creation is in flight at a time: the
\* first caller starts it, every caller arriving before it settles awaits that
\* same promise, all of them receive the same folder id or the same failure, and
\* no second folder is created.
C33_SingleFlight ==
    /\ []OneCreationInFlight
    /\ [][ArrivalsShareTheCreation]_vars

\* the caller that started a creation and two callers that arrived before it
\* settled have all received the id of the one folder
C33_Witness ==
    /\ folders = {1}
    /\ creation = [p \in Creations |-> IF p = 1 THEN "resolved" ELSE "unstarted"]
    /\ \A c \in Callers : fmCaller[c] = [pc |-> "returned", promise |-> 1, ok |-> TRUE, id |-> 1]
\* a failed promise stays in the cache only until the caller that started the
\* creation has resumed from its await
FailedPromiseNotKept ==
    \A p \in Creations :
        (folderCreationPromise = p /\ creation[p] = "rejected")
            => \E c \in Callers : fmCaller[c].pc = "awaiting" /\ fmCaller[c].promise = p

\* the failure reaches the caller that started the creation with the cache
\* cleared, and a call made after that starts a fresh creation
RetryAfterFailure ==
    \A c \in Callers :
        /\ (fmCaller[c].pc = "awaiting" /\ fmCaller'[c].pc = "returned" /\ ~fmCaller'[c].ok)
              => folderCreationPromise' = 0
        /\ (fmCaller[c].pc \in {"idle", "returned"} /\ fmCaller'[c].pc = "shared")
              => creation[fmCaller'[c].promise] # "rejected"
                 \/ \E a \in Callers : fmCaller[a].pc = "awaiting" /\ fmCaller[a].promise = fmCaller'[c].promise

\* the promise of a successful creation leaves the cache only when the grace
\* timer of that creation fires, and a grace timer that fires finds the promise
\* of its own creation in the cache
ClearedByOwnGraceTimer ==
    \A p \in Creations :
        /\ (folderCreationPromise = p /\ creation[p] = "resolved" /\ folderCreationPromise' # p)
              => (p \in graceTimers /\ p \notin graceTimers')
        /\ (p \in graceTimers /\ p \notin graceTimers') => folderCreationPromise = p

\* C34: when a folder creation fails, the cached promise is cleared before the
\* failure reaches the caller, so a later ensureAIImporterFolderExists call
\* starts a fresh creation instead of returning the failed promise; after a
\* success the cache is cleared only by the grace timer, and that timer never
\* clears the promise of a newer creation.
C34_CacheCleared ==
    /\ []FailedPromiseNotKept
    /\ [][RetryAfterFailure]_vars
    /\ [][ClearedByOwnGraceTimer]_vars

\* a creation failed and the call after it started a fresh one, which made the
\* folder; its grace timer has fired, the folder was deleted and a third creation
\* is in flight
C34_Witness ==
    /\ creation = <<"rejected", "resolved", "pending">>
    /\ folderCreationPromise = 3
    /\ graceTimers = {}
    /\ \E c \in Callers : fmCaller[c] = [pc |-> "returned", promise |-> 1, ok |-> FALSE, id |-> 1]
\* the requests submitted for the attempts of the retry handler
AttemptRequestSet == {attemptRequests[i] : i \in 1..Len(attemptRequests)}

\* every attempt made so far has a request of its own in the rate limiter
SeparateSubmissions ==
    /\ Cardinality(AttemptRequestSet) = Len(attemptRequests)
    /\ Len(attemptRequests) \in {Len(rtLog), Len(rtLog) + 1}
    /\ \A r \in AttemptRequestSet : rlState[r] \notin {"new", "direct"}

\* while the retry handler sleeps none of its requests is queued or in flight:
\* the in-flight counter counts running requests of others only
NoSlotWhileSleeping ==
    rtPc = "sleeping" =>
        /\ \A r \in AttemptRequestSet : rlState[r] \in {"resolved", "rejected"}
        /\ activeRequests = Cardinality({r \in Requests \ AttemptRequestSet : rlState[r] = "running"})

\* the request of an attempt joins the queue at the back: behind all that wait
\* already, of which processQueue() may take the first
JoinsAtTheBack ==
    Len(attemptRequests') = Len(attemptRequests) + 1 =>
        LET r == attemptRequests'[Len(attemptRequests')]
        IN  /\ rlState[r] = "new"
            /\ requestQueue' \in {Append(requestQueue, r), Tail(Append(requestQueue, r))}
            /\ requestQueue # <<>> => (r \in SeqRange(requestQueue') /\ rlState'[r] = "queued")

\* the request of an attempt is dispatched under the ceilings only, and with a
\* timestamp of its own in the list the ceilings count
DispatchedWhenAdmissible ==
    \A r \in AttemptRequestSet' :
        (rlState[r] # "running" /\ rlState'[r] = "running") =>
            /\ activeRequests < MaxConcurrent
            /\ RequestsInLastSecond(CleanOld(requestTimestamps, now), now) < RequestsPerSecond
            /\ RequestsInLastMinute(CleanOld(requestTimestamps, now), now) < RequestsPerMinute
            /\ requestTimestamps' = Append(CleanOld(requestTimestamps, now), now)
            /\ activeRequests' = activeRequests + 1

\* C35: every invocation of the completion endpoint made by ask, first attempt
\* or retry, is a separate submission to the rate limiter: it joins the back of
\* the FIFO queue, is dispatched only when admissible and records its own
\* timestamp, so retries count against the per-second and per-minute ceilings,
\* and a request sleeping in backoff holds no concurrency slot.
C35_RetriesAreRateLimited ==
    /\ [](SeparateSubmissions /\ NoSlotWhileSleeping)
    /\ [][JoinsAtTheBack /\ DispatchedWhenAdmissible]_vars

\* the retry of a failed attempt waited in the queue behind the request of
\* another caller and is now in flight, its timestamp the newest of the list
C35_Witness ==
    /\ Len(attemptRequests) = 2
    /\ Len(rtLog) = 1
    /\ rlState[attemptRequests[2]] = "running"
    /\ Len(dispatchLog) >= 3
    /\ dispatchLog[Len(dispatchLog)] = attemptRequests[2]
    /\ dispatchLog[Len(dispatchLog) - 1] \notin AttemptRequestSet
    /\ lastWait["second"] # 0
\* C36: every error that analyzeError diagnoses as a rate-limit error, telling the
\* user that the system retries automatically with exponential backoff, is
\* retryable for isRetryableError, so that it has been retried up to maxRetries
\* times before the diagnosis is shown.
C36_ClassifierAgreesWithRetry ==
    (askPc = "thrown" /\ retryEnabled /\ notifications # <<>>
     /\ AnalyzeError(rtOutcome.error).isRateLimitError)
        => /\ IsRetryableError(rtOutcome.error)
           /\ Len(rtLog) = maxRetries + 1
\* C37: between any two steps of the batch coordinator a batch key has an armed
\* timer if and only if it has a pending list, and every pending list is
\* non-empty and shorter than maxBatchSize: no queued request waits without a
\* timer that will flush it.
C37_TimerIffPending ==
    /\ \A k \in BatchKeys :
          /\ (batchTimers[k] # NoTimer) <=> (pendingRequests[k] # <<>>)
          /\ Len(pendingRequests[k]) < MaxBatchSize
    /\ \A r \in BatchRequests, k \in BatchKeys :
          r \in SeqRange(pendingRequests[k]) => batchTimers[k] >= queuedAt[k][1] + BatchTimeoutMs

\* after a first batch of a key was flushed, two requests wait for the same key
\* under a timer armed for the first of them
C37_Witness ==
    \E k \in BatchKeys :
        /\ Len(pendingRequests[k]) = 2
        /\ batchTimers[k] # NoTimer
        /\ \E f \in 1..Len(flushes) : flushes[f].key = k
\* processRequest was called for the request
Accepted(r) == bpRequest[r] # NoArgs

\* the flushed batches the request is a member of, and the pending lists it waits in
FlushesOf(r) == {f \in 1..Len(flushes) : r \in SeqRange(flushes[f].members)}
PendingOf(r) == {k \in BatchKeys : r \in SeqRange(pendingRequests[k])}

\* the settled askLLM calls whose outcome was handed to resolve or reject of the
\* request: its direct call, its own call in a flush, or the combined call of its
\* flush where the array was accepted
SettlingCalls(r) ==
    {c \in 1..Len(askLog) :
        /\ askLog[c].outcome.state # "pending"
        /\ \/ askLog[c].flush = 0 /\ askLog[c].member = r
           \/ /\ askLog[c].flush \in FlushesOf(r)
              /\ askLog[c].member > 0
              /\ flushes[askLog[c].flush].members[askLog[c].member] = r
           \/ /\ askLog[c].flush \in FlushesOf(r)
              /\ askLog[c].member = 0
              /\ askLog[c].outcome.state = "resolved"
              /\ askLog[c].outcome.value.isArray
              /\ Len(askLog[c].outcome.value.elems) = Len(flushes[askLog[c].flush].members)}

\* nothing is queued and no askLLM call of the batch processor is in flight
BatchQuiescent ==
    /\ \A k \in BatchKeys : pendingRequests[k] = <<>>
    /\ \A f \in 1..Len(flushes) : flushes[f].phase = "done"
    /\ \A c \in 1..Len(askLog) : askLog[c].outcome.state # "pending"

\* C38: every request accepted by processRequest belongs to exactly one flushed
\* batch (once flushed) and its promise is settled exactly once, resolved or
\* rejected, never twice and, where every askLLM call settles, never left
\* pending; for any interleaving of arrivals, size-triggered and timer-triggered
\* flushes, setBatching(false) and the sequential fallback, also after an earlier
\* member of the same batch failed.
C38_SettledExactlyOnce ==
    \A r \in BatchRequests :
        Accepted(r) =>
            /\ Cardinality(FlushesOf(r)) + Cardinality(PendingOf(r)) <= 1
            /\ \A f \in FlushesOf(r) :
                  Cardinality({i \in 1..Len(flushes[f].members) : flushes[f].members[i] = r}) = 1
            /\ (FlushesOf(r) = {} /\ PendingOf(r) = {})
                  => \E c \in 1..Len(askLog) : askLog[c].flush = 0 /\ askLog[c].member = r
            /\ Cardinality(SettlingCalls(r)) <= 1
            /\ (bpPromise[r].state # "pending") <=> (Cardinality(SettlingCalls(r)) = 1)
            /\ BatchQuiescent => bpPromise[r].state \in {"resolved", "rejected"}

\* a batch of three went to the sequential fallback; its first member was
\* rejected, its second resolved and its third rejected, and nothing is left to do
C38_Witness ==
    /\ BatchQuiescent
    /\ \E f \in 1..Len(flushes) :
          /\ Len(flushes[f].members) = 3
          /\ bpPromise[flushes[f].members[1]].state = "rejected"
          /\ bpPromise[flushes[f].members[2]].state = "resolved"
          /\ bpPromise[flushes[f].members[3]].state = "rejected"
\* the outputOptions the r-th processRequest call of the model passes
OutputOptionsOf(r) ==
    CASE r % 3 = 1 -> [overrides |-> [type |-> "feat"], deletions |-> {"img"}]
      [] r % 3 = 2 -> [overrides |-> [name |-> "Bite", type |-> "weapon"], deletions |-> {"type"}]
      [] OTHER     -> [overrides |-> NoOverrides, deletions |-> {}]

\* what askLLM returns for a call of the batch processor that resolved with value:
\* the overrides are assigned to, and the deletions deleted from, the parsed
\* output itself; of an array these are properties of the array, its elements
\* are left as parsed
AskOutput(call, value) ==
    LET options == OutputOptionsOf(call.outputOptions.of)
    IN  IF value.isArray
        THEN [isArray |-> TRUE,
              elems |-> [i \in 1..Len(value.elems) |-> ParsedOutput(value.elems[i])],
              own |-> ApplyDeletions(ApplyOverrides(<<>>, options.overrides), options.deletions)]
        ELSE [isArray |-> FALSE, elems |-> <<>>,
              own |-> ApplyDeletions(ApplyOverrides(ParsedOutput(value), options.overrides),
                                     options.deletions)]

\* the result request.resolve was called with: the output of the request's own
\* call, or results[index] of the combined call
DeliveredResult(r) ==
    LET value == bpPromise[r].value
        output == AskOutput(askLog[value.call], askLog[value.call].outcome.value)
    IN  IF value.index = 0 THEN output.own ELSE output.elems[value.index]

\* what a direct askLLM call with the request's own outputOptions returns for
\* the same parsed item
DirectResult(r) ==
    ApplyDeletions(ApplyOverrides(ParsedOutput(bpPromise[r].value), OutputOptionsOf(r).overrides),
                   OutputOptionsOf(r).deletions)

\* C39: batching is transparent to post-processing: the result delivered to a
\* request has the request's own overrides applied and its own deletions removed,
\* as a direct ask with the same arguments would produce, whether the request was
\* served by a combined batch call or by an individual call.
C39_BatchingTransparent ==
    \A r \in BatchRequests :
        bpPromise[r].state = "resolved" => DeliveredResult(r) = DirectResult(r)

\* the same for the requests served by a call of their own
IndividualCallTransparent ==
    \A r \in BatchRequests :
        (bpPromise[r].state = "resolved" /\ bpPromise[r].value.index = 0)
            => DeliveredResult(r) = DirectResult(r)
====
